---------------------------- MODULE Spec2Model ----------------------------
(***************************************************************************)
(* Model of the MERIT-Basins catchment extraction tool                     *)
(* (src/extract_merit_catchment.py and the merit_extractor package).       *)
(*                                                                         *)
(* The module holds several specifications over one set of variables:      *)
(*   SpecBfs    bfs_upstream, one action per iteration of its while loop   *)
(*   FairBfs    SpecBfs with weak fairness (the loop keeps running)        *)
(*   SpecBuild  build_upstream_graph applied to bounded reach tables       *)
(*   SpecPick   pick_nearest_reach applied to bounded stations and rivers  *)
(*   Spec       one run of main() with its pool of worker processes        *)
(*   SpecFault  Spec with unexpected exceptions and dying worker processes *)
(*   FairFault  SpecFault with weak fairness of the steps of Spec           *)
(*   SpecResume Spec started on the ledger an earlier run left, or on a    *)
(*              ledger file that cannot be read                            *)
(*   SpecPool   Spec on machines of 1..MaxCores cores                      *)
(*   SpecHoles  remove_small_holes applied to bounded geometries           *)
(*   SpecMerge  merge_catchments_fixed_robust, one action per stage        *)
(*   SpecNorm   normalize_area_to_m2 applied to bounded area columns        *)
(*   SpecRead   read_site_info applied to bounded workbooks                 *)
(***************************************************************************)
EXTENDS Integers, Sequences, FiniteSets, TLC

(***************************************************************************)
(* Bounds of the model.                                                    *)
(***************************************************************************)
MaxNode == 4
MaxEdges == 3
MaxRows == 2
MaxDefects == 1
MaxCoord == 2
MaxSnap == 2
MaxOrder == 2
MaxUpArea == 1
MaxStations == 2
MaxCpu == 3
MaxHoles == 2
MaxParts == 2
MaxGeoms == 2
MaxSeries == 3
MaxSheetRows == 2
MaxCores == 6

VARIABLES
    bG,         \* bfs_upstream: the argument G (dict: reach id -> set of ids)
    bOutlet,    \* bfs_upstream: the argument outlet
    visited,    \* bfs_upstream: the local set visited
    q,          \* bfs_upstream: the local deque q
    bpc,        \* bfs_upstream: "call" | "loop" | "done"
    bResult,    \* bfs_upstream: the returned set (once bpc = "done")
    enq,        \* history: how often each id was put on q
    expd,       \* history: how often each id was popped and expanded
    tbl,        \* build_upstream_graph: the argument gdf_riv (columns, rows)
    built,      \* build_upstream_graph: its outcome (returned G or exception)
    pk,         \* pick_nearest_reach: its arguments
    pickRes,    \* pick_nearest_reach: its outcome (returned tuple or exception)
    world,      \* main: the river layer and the unit catchment layer on disk
    CONFIG,       \* main: CONFIG
    cpus,  \* main: os.cpu_count()
    excel,      \* main: the station file, as read_site_info returns it
    df_info,    \* main: the station table, filtered by the resume check
    ledger,     \* main: the file summary.csv
    mpc,        \* main: where main() stands
    stations,   \* main: the list of task dicts
    Gmain,      \* main: G, the outcome of build_upstream_graph
    wk,         \* the worker processes: state, globals, current task
    fut,        \* main: the futures, one per submitted station
    summary_rows,    \* main: the list summary_rows
    all_catchments,  \* main: the list all_catchments
    cnt,        \* main: the ok/reject/fail counts
    hGeom,      \* remove_small_holes: the argument geom
    hMin,       \* remove_small_holes: the argument min_area_km2
    hOut,       \* remove_small_holes: the returned geometry
    hpc,        \* remove_small_holes: "call" | "done"
    geometries,     \* merge_catchments_fixed_robust: the argument geometries
    min_hole,       \* merge_catchments_fixed_robust: the argument min_hole_km2
    clean_geoms,    \* merge_catchments_fixed_robust: the local list clean_geoms
    invalid_count,  \* merge_catchments_fixed_robust: the local invalid_count
    gmerged,        \* merge_catchments_fixed_robust: the local merged
    gpc,            \* merge_catchments_fixed_robust: the stage it is at
    stages,         \* history: the stages completed, in order
    nSeries,    \* normalize_area_to_m2: the argument series_area
    nOut,       \* normalize_area_to_m2: the returned series
    npc,        \* normalize_area_to_m2: "call" | "done"
    rBook,      \* read_site_info: the sheets of the workbook
    rOut,       \* read_site_info: its outcome (sheet and rows, or exception)
    rpc         \* read_site_info: "call" | "done"

bfsVars == <<bG, bOutlet, visited, q, bpc, bResult, enq, expd>>
buildVars == <<tbl, built>>
pickVars == <<pk, pickRes>>
mainVars == <<world, excel, CONFIG, cpus, df_info, ledger, mpc, stations, Gmain, wk, fut,
              summary_rows, all_catchments, cnt>>
holeVars == <<hGeom, hMin, hOut, hpc>>
mergeVars == <<geometries, min_hole, clean_geoms, invalid_count, gmerged, gpc, stages>>
geoVars == <<holeVars, mergeVars>>
normVars == <<nSeries, nOut, npc>>
readVars == <<rBook, rOut, rpc>>
ioVars == <<normVars, readVars>>
vars == <<bfsVars, buildVars, pickVars, mainVars, geoVars, ioVars>>

(***************************************************************************)
(* Generic helpers.                                                        *)
(***************************************************************************)
Nodes == 1..MaxNode

Min(S) == CHOOSE x \in S : \A y \in S : x <= y

RECURSIVE SortedSeq(_)
SortedSeq(S) == IF S = {} THEN <<>> ELSE <<Min(S)>> \o SortedSeq(S \ {Min(S)})

\* every enumeration order of a finite set, as sequences without repetition
Orders(S) == {s \in [1..Cardinality(S) -> S] : \A i, j \in 1..Cardinality(S) : i # j => s[i] # s[j]}

(***************************************************************************)
(* A topology graph is a function from its keys to sets of ids (a dict).   *)
(* GraphOf(E, K) is the dict with the edges E (pairs <<d, u>>: u is        *)
(* directly upstream of d) and the additional keys K holding empty sets.   *)
(***************************************************************************)
GraphOf(E, K) ==
    [d \in {e[1] : e \in E} \cup K |-> {e[2] : e \in {f \in E : f[1] = d}}]

\* G.get(cur, set())
Get(G, cur) == IF cur \in DOMAIN G THEN G[cur] ELSE {}

\* a lookup by G[cur]: on a defaultdict(set) a missing key is inserted with
\* an empty set
GetEffect_Subscript(G, cur) ==
    [k \in DOMAIN G \cup {cur} |-> IF k \in DOMAIN G THEN G[k] ELSE {}]

\* the dictionary after G.get(cur, set()): get() returns the default and
\* inserts nothing, on a defaultdict too
GetEffect(G, cur) == G

RECURSIVE EdgeSets(_)
EdgeSets(k) ==
    IF k = 0 THEN {{}}
    ELSE LET P == EdgeSets(k - 1)
         IN  P \cup {s \cup {e} : s \in P, e \in Nodes \X Nodes}

\* the graphs the traversal is run on: up to MaxEdges edges over Nodes
\* (chains, trees, diamonds, cycles, self-loops), with or without a key
\* that holds an empty set
Graphs == {GraphOf(E, K) : E \in EdgeSets(MaxEdges), K \in {{}, {1}}}

(***************************************************************************)
(* bfs_upstream (topology.py 298-312).                                     *)
(***************************************************************************)
\* a mutant: the neighbour is marked visited but never queued
RECURSIVE BfsForNoAppend(_, _, _)
BfsForNoAppend(ord, vis, queue) ==
    IF ord = <<>> THEN [visited |-> vis, q |-> queue]
    ELSE BfsForNoAppend(Tail(ord), vis \cup {Head(ord)}, queue)

\* a mutant: the test `u not in visited` is missing
RECURSIVE BfsForNoCheck(_, _, _)
BfsForNoCheck(ord, vis, queue) ==
    IF ord = <<>> THEN [visited |-> vis, q |-> queue]
    ELSE BfsForNoCheck(Tail(ord), vis \cup {Head(ord)}, Append(queue, Head(ord)))

\* the body of `for u in G.get(cur, set())`, run over the ids in the order ord
RECURSIVE BfsFor(_, _, _)
BfsFor(ord, vis, queue) ==
    IF ord = <<>> THEN [visited |-> vis, q |-> queue]
    ELSE LET u == Head(ord)
         IN  IF u \notin vis
             THEN BfsFor(Tail(ord), vis \cup {u}, Append(queue, u))
             ELSE BfsFor(Tail(ord), vis, queue)

\* a mutant: the id is popped and its upstream ids are not looked at
BfsIter_PopOnly(G, vis, queue, ord) == [visited |-> vis, q |-> Tail(queue)]

\* one iteration of `while q`: popleft, then the for loop in the order ord
BfsIter(G, vis, queue, ord) == BfsFor(ord, vis, Tail(queue))

\* the whole function, iterating every set in ascending order
RECURSIVE BfsRun(_, _, _)
BfsRun(G, vis, queue) ==
    IF queue = <<>> THEN vis
    ELSE \* r, the state after the iteration, is bound as an element of a
         \* one-element set: it is computed once for both of its uses
         CHOOSE res \in {BfsRun(G, r.visited, r.q) :
                            r \in {BfsIter(G, vis, queue, SortedSeq(Get(G, Head(queue))))}} : TRUE

bfs_upstream(G, outlet) == BfsRun(G, {outlet}, <<outlet>>)

(***************************************************************************)
(* Field values of the reach table.  A cell holds a Python object; the     *)
(* model keeps the kinds int() tells apart: an int, a float with a         *)
(* fractional part (v halves), NaN, an infinity, None, a decimal numeral   *)
(* as text, other text.                                                    *)
(***************************************************************************)
IntV(n) == [k |-> "int", v |-> n]
HalfV(n) == [k |-> "half", v |-> n]       \* the float n/2, n odd
StrV(n) == [k |-> "str", v |-> n]         \* the text str(n)
NaN == [k |-> "nan", v |-> 0]
Inf == [k |-> "inf", v |-> 0]
NoneV == [k |-> "none", v |-> 0]
TextV == [k |-> "text", v |-> 0]          \* text that is no numeral

\* int(x): the value, for the kinds int() accepts (floats truncate to zero)
IntOf(x) ==
    CASE x.k = "int" -> x.v
      [] x.k = "str" -> x.v
      [] x.k = "half" -> IF x.v >= 0 THEN x.v \div 2 ELSE -((-x.v) \div 2)
      [] OTHER -> 0

\* what int(x) raises: "" when it returns
IntRaises(x) ==
    CASE x.k \in {"int", "str", "half"} -> ""
      [] x.k = "nan" -> "ValueError"
      [] x.k = "text" -> "ValueError"
      [] x.k = "none" -> "TypeError"
      [] x.k = "inf" -> "OverflowError"

\* valid_int (utils.py 308-312): "True", "False", or the name of the
\* exception that escapes (only TypeError and ValueError are caught)
valid_int(x) ==
    IF IntRaises(x) = "" THEN (IF IntOf(x) > 0 THEN "True" ELSE "False")
    ELSE IF IntRaises(x) \in {"TypeError", "ValueError"} THEN "False"
    ELSE IntRaises(x)

(***************************************************************************)
(* build_upstream_graph (topology.py 144-179).                             *)
(* A reach table is [cols, rows]: cols is the set of topology columns the  *)
(* table has, rows a sequence of records over COMID and the five topology  *)
(* fields (a field of an absent column is never read).                     *)
(***************************************************************************)
UpNames == <<"up1", "up2", "up3", "up4">>
TopoCols == {"NextDownID", "up1", "up2", "up3", "up4"}
AllCols == {"COMID"} \cup TopoCols

\* the accumulator of the loops: the edges put into G so far and the
\* exception that ended the function ("" while none has)
NoEdges == [exc |-> "", E |-> {}]

\* the body of the first loop for one row r
NextDownRow(r, acc) ==
    IF acc.exc # "" THEN acc
    ELSE LET vc == valid_int(r["COMID"])
         IN  IF vc = "False" THEN acc
             ELSE IF vc # "True" THEN [acc EXCEPT !.exc = vc]
             ELSE LET vn == valid_int(r["NextDownID"])
                  IN  IF vn = "False" THEN acc
                      ELSE IF vn # "True" THEN [acc EXCEPT !.exc = vn]
                      ELSE [acc EXCEPT !.E = @ \cup
                               {<<IntOf(r["NextDownID"]), IntOf(r["COMID"])>>}]

\* the inner loop `for uf in up_fields` for the row r with COMID d
RECURSIVE UpSlots(_, _, _, _)
UpSlots(ufs, r, d, acc) ==
    IF ufs = <<>> \/ acc.exc # "" THEN acc
    ELSE LET vu == valid_int(r[Head(ufs)])
         IN  IF vu = "False" THEN UpSlots(Tail(ufs), r, d, acc)
             ELSE IF vu # "True" THEN [acc EXCEPT !.exc = vu]
             ELSE UpSlots(Tail(ufs), r, d,
                          [acc EXCEPT !.E = @ \cup {<<d, IntOf(r[Head(ufs)])>>}])

\* the body of the second loop for one row r
UpRow(ufs, r, acc) ==
    IF acc.exc # "" THEN acc
    ELSE LET vd == valid_int(r["COMID"])
         IN  IF vd = "False" THEN acc
             ELSE IF vd # "True" THEN [acc EXCEPT !.exc = vd]
             ELSE UpSlots(ufs, r, IntOf(r["COMID"]), acc)

RECURSIVE NextDownLoop(_, _)
NextDownLoop(rows, acc) ==
    IF rows = <<>> THEN acc
    ELSE NextDownLoop(Tail(rows), NextDownRow(Head(rows), acc))

RECURSIVE UpLoop(_, _, _)
UpLoop(ufs, rows, acc) ==
    IF rows = <<>> THEN acc
    ELSE UpLoop(ufs, Tail(rows), UpRow(ufs, Head(rows), acc))

\* a mutant: a table without topology fields yields an empty graph
MissingTopology_NoRaise(acc) == acc

\* the final test: no topology field at all raises RuntimeError
MissingTopology(acc) == [acc EXCEPT !.exc = "RuntimeError"]

\* a mutant: the up1..up4 pass is skipped when NextDownID is present
build_upstream_graph_next_only(t) ==
    LET up_fields == SelectSeq(UpNames, LAMBDA c : c \in t.cols)
        has_next == "NextDownID" \in t.cols
        a1 == IF has_next THEN NextDownLoop(t.rows, NoEdges) ELSE NoEdges
        a2 == IF up_fields # <<>> /\ ~has_next
              THEN UpLoop(up_fields, t.rows, a1) ELSE a1
        a3 == IF a2.exc = "" /\ ~has_next /\ up_fields = <<>>
              THEN MissingTopology(a2) ELSE a2
    IN  IF a3.exc = "" THEN [status |-> "ok", G |-> GraphOf(a3.E, {})]
        ELSE [status |-> a3.exc, G |-> GraphOf({}, {})]

\* the function: [status, G], status "ok" when it returns G and the name of
\* the exception when it raises
build_upstream_graph(t) ==
    LET up_fields == SelectSeq(UpNames, LAMBDA c : c \in t.cols)
        has_next == "NextDownID" \in t.cols
        a1 == IF has_next THEN NextDownLoop(t.rows, NoEdges) ELSE NoEdges
        a2 == IF up_fields # <<>> THEN UpLoop(up_fields, t.rows, a1) ELSE a1
        a3 == IF a2.exc = "" /\ ~has_next /\ up_fields = <<>>
              THEN MissingTopology(a2) ELSE a2
    IN  IF a3.exc = "" THEN [status |-> "ok", G |-> GraphOf(a3.E, {})]
        ELSE [status |-> a3.exc, G |-> GraphOf({}, {})]

(***************************************************************************)
(* The reach tables build_upstream_graph is run on: a consistent chain     *)
(* (reach i drains to reach i-1, and names reach i+1 in up1) in which up   *)
(* to MaxDefects cells hold any other value.                               *)
(***************************************************************************)
CellValues ==
    {IntV(n) : n \in -1..(MaxRows + 1)}
        \cup {NaN, Inf, NoneV, TextV, StrV(MaxRows), HalfV(1), HalfV(3)}

\* the cell of column c in row i of a consistent chain of n reaches
ChainCell(i, c, n) ==
    CASE c = "COMID" -> IntV(i)
      [] c = "NextDownID" -> IntV(i - 1)
      [] c = "up1" -> IntV(IF i < n THEN i + 1 ELSE 0)
      [] OTHER -> IntV(0)

\* a defect <<i, c, x>>: the cell of column c in row i holds x
DefectsOf(n, cols) == (1..n) \X (cols \cup {"COMID"}) \X CellValues

RECURSIVE DefectSets(_, _, _)
DefectSets(n, cols, k) ==
    IF k = 0 THEN {{}}
    ELSE LET P == DefectSets(n, cols, k - 1)
         IN  P \cup {D \cup {t} : D \in P, t \in DefectsOf(n, cols)}

\* the rows of the table with the columns cols, n reaches and the defects
\* D; a field of an absent column holds 0 and is never read
TableRows(n, cols, D) ==
    [i \in 1..n |->
        [c \in AllCols |->
            IF \E t \in D : t[1] = i /\ t[2] = c
            THEN (CHOOSE t \in D : t[1] = i /\ t[2] = c)[3]
            ELSE IF c \in cols \cup {"COMID"} THEN ChainCell(i, c, n)
            ELSE IntV(0)]]

(***************************************************************************)
(* pick_nearest_reach (gis_utils.py 53-96).                                *)
(* Coordinates are those of the planar system (the station already         *)
(* projected, line 54).  A reach geometry is a sequence of vertices whose  *)
(* consecutive pairs are axis-parallel segments, so that squared           *)
(* distances are integers; the model keeps the squared distance, which     *)
(* orders the candidates as the distance does.                             *)
(***************************************************************************)
Lo(a, b) == IF a <= b THEN a ELSE b
Hi(a, b) == IF a >= b THEN a ELSE b

\* the bounding envelope of a geometry: <<minx, miny, maxx, maxy>>
Envelope(g) ==
    LET xs == {g[i][1] : i \in DOMAIN g}
        ys == {g[i][2] : i \in DOMAIN g}
    IN  <<Min(xs), Min(ys), -Min({-v : v \in xs}), -Min({-v : v \in ys})>>

\* the distance from v to the interval [a, b] or [b, a]
AxisGap(v, a, b) ==
    IF v < Lo(a, b) THEN Lo(a, b) - v
    ELSE IF v > Hi(a, b) THEN v - Hi(a, b)
    ELSE 0

\* the squared distance from (x, y) to the axis-parallel segment a-b
SegDistSq(x, y, a, b) ==
    AxisGap(x, a[1], b[1]) * AxisGap(x, a[1], b[1])
        + AxisGap(y, a[2], b[2]) * AxisGap(y, a[2], b[2])

\* cand.geometry.distance(pt), squared
DistSq(g, x, y) ==
    IF Len(g) = 1 THEN SegDistSq(x, y, g[1], g[1])
    ELSE Min({SegDistSq(x, y, g[i], g[i + 1]) : i \in 1..(Len(g) - 1)})

\* a mutant: the window is as wide as the snap distance, not twice as wide
WindowHits_HalfWidth(g, x, y, snap) ==
    LET e == Envelope(g)
    IN  /\ 2 * e[1] <= 2 * x + snap /\ 2 * e[3] >= 2 * x - snap
        /\ 2 * e[2] <= 2 * y + snap /\ 2 * e[4] >= 2 * y - snap

\* sidx.intersection(buffer_bounds): the envelope of g meets the square
\* window of half-width snap around (x, y), borders included
WindowHits(g, x, y, snap) ==
    LET e == Envelope(g)
    IN  /\ e[1] <= x + snap /\ e[3] >= x - snap
        /\ e[2] <= y + snap /\ e[4] >= y - snap

\* cand_idx
Candidates(riv, x, y, snap) ==
    {i \in DOMAIN riv.rows : WindowHits(riv.rows[i].geom, x, y, snap)}

\* .fillna(0) of an attribute column; 0 when the table has no such column
FillNa(riv, i, col) ==
    IF col \notin riv.cols THEN 0
    ELSE IF riv.rows[i][col].k = "nan" THEN 0
    ELSE riv.rows[i][col].v

\* the row of cand for the reach at position i
CandRow(riv, i, x, y) ==
    [COMID |-> riv.rows[i].COMID,
     dist2 |-> DistSq(riv.rows[i].geom, x, y),
     order |-> FillNa(riv, i, "order"),
     uparea |-> FillNa(riv, i, "uparea")]

\* a mutant: the order-preference flag is ignored, distance always first
SortKey_DistanceFirst(c, order_first) == <<c.dist2, -c.order, -c.uparea>>

\* the sort keys of sort_values, each made ascending
SortKey(c, order_first) ==
    IF order_first THEN <<-c.order, c.dist2, -c.uparea>>
    ELSE <<c.dist2, -c.order, -c.uparea>>

\* k1 sorts strictly before k2
LexLess(k1, k2) ==
    \/ k1[1] < k2[1]
    \/ k1[1] = k2[1] /\ k1[2] < k2[2]
    \/ k1[1] = k2[1] /\ k1[2] = k2[2] /\ k1[3] < k2[3]

\* the rows that can be cand.iloc[0] after the sort: the sort is stable, and
\* the order of rows that agree on all three keys is that of cand_idx,
\* which the spatial index leaves open
TopRanked(cands, order_first) ==
    {c \in cands : \A o \in cands : ~LexLess(SortKey(o, order_first), SortKey(c, order_first))}

PickFailed == [status |-> "RuntimeError", COMID |-> 0, dist2 |-> 0, order |-> 0, uparea |-> 0]

\* the function: the set of its possible outcomes, each [status, COMID,
\* dist2, order, uparea] with status "ok", or PickFailed when it raises
pick_nearest_reach(riv, x, y, snap, order_first) ==
    LET cand_idx == Candidates(riv, x, y, snap)
        cand == {CandRow(riv, i, x, y) : i \in cand_idx}
    IN  IF cand_idx = {} THEN {PickFailed}
        ELSE {IF IntRaises(r.COMID) # "" THEN [PickFailed EXCEPT !.status = IntRaises(r.COMID)]
              ELSE [status |-> "ok", COMID |-> IntOf(r.COMID), dist2 |-> r.dist2,
                    order |-> r.order, uparea |-> r.uparea] :
                 r \in TopRanked(cand, order_first)}

(***************************************************************************)
(* The river layer of the model: three reaches east of the stations, a     *)
(* horizontal one, a vertical one and a bent one.                          *)
(***************************************************************************)
RiverGeoms ==
    << << <<3, 0>>, <<4, 0>> >>,
       << <<2, 1>>, <<2, 3>> >>,
       << <<5, 1>>, <<5, 3>>, <<3, 3>> >> >>

\* the values of an attribute column: missing, or 1..max
AttrValues(max) == {NaN} \cup {IntV(n) : n \in 1..max}

\* the river tables pick_nearest_reach is run on
RiverTables ==
    {[cols |-> cols,
      rows |-> [i \in DOMAIN RiverGeoms |->
                  [COMID |-> IntV(i), geom |-> RiverGeoms[i],
                   order |-> IF "order" \in cols THEN o[i] ELSE NaN,
                   uparea |-> IF "uparea" \in cols THEN u[i] ELSE NaN]]] :
        cols \in SUBSET {"order", "uparea"},
        o \in [DOMAIN RiverGeoms -> AttrValues(MaxOrder)],
        u \in [DOMAIN RiverGeoms -> AttrValues(MaxUpArea)]}

(***************************************************************************)
(* The batch of main(): station codes, the result ledger, the worlds       *)
(* (river layer and unit catchments), the configurations and the stations. *)
(***************************************************************************)

\* a station code: the text made of `zeros` characters "0" followed by the
\* decimal numeral of num ("100" is Code(0, 100), "007" is Code(2, 7))
Code(zeros, num) == [zeros |-> zeros, num |-> num]

\* pd.read_csv followed by astype(str) on a column of numerals: the column
\* is parsed as integers, the text of an integer has no leading zero
CsvReadCode(c) == Code(0, c.num)

\* the ledger file summary.csv: absent, a table with the columns code and
\* status, or a file of another form
NoLedger == [exists |-> FALSE, form |-> "table", rows |-> <<>>]
LedgerFile(rows) == [exists |-> TRUE, form |-> "table", rows |-> rows]

\* the files the resume check cannot use: pd.read_csv raises on a file that
\* does not parse, the selection raises KeyError on a table without the
\* column status or without the column code
BadForms == {"unparsable", "no_status", "no_code"}
BadLedgers == {[exists |-> TRUE, form |-> f, rows |-> <<>>] : f \in BadForms}

\* the try block of the resume check raises an exception
ResumeRaises(led) == led.exists /\ led.form \in BadForms

\* df_summary.to_csv: the columns of a result that the resume check reads
CsvRow(res) == [code |-> res.code, status |-> res.status, msg |-> res.msg]
ToCsv(rows) == LedgerFile([i \in DOMAIN rows |-> CsvRow(rows[i])])

\* completed = set(df_prev[df_prev["status"] == "ok"]["code"].astype(str))
Completed(led) ==
    IF led.exists
    THEN {CsvReadCode(led.rows[i].code) : i \in {j \in DOMAIN led.rows : led.rows[j].status = "ok"}}
    ELSE {}

\* df_info[~df_info["code"].isin(completed)]: the rows kept, in their order
RECURSIVE Pending(_, _)
Pending(info, completed) ==
    IF info = <<>> THEN <<>>
    ELSE IF Head(info).code \in completed THEN Pending(Tail(info), completed)
         ELSE <<Head(info)>> \o Pending(Tail(info), completed)

\* the task handed to a worker, without the reference area
StationDict_NoArea(row) ==
    [code |-> row.code, lon |-> row.lon, lat |-> row.lat, area_m2 |-> NaN]

\* stations.append({"code": ..., "lon": ..., "lat": ..., "area_m2": ...})
StationDict(row) ==
    [code |-> row.code, lon |-> row.lon, lat |-> row.lat, area_m2 |-> row.area_m2]

\* n_workers = min(max(1, os.cpu_count() - 1), 4)
PoolCap == 4
\* a mutant: the minimum of one worker is missing
n_workers_NoMin(cpu_count) == Lo(cpu_count - 1, PoolCap)
n_workers(cpu_count) == Lo(Hi(1, cpu_count - 1), PoolCap)

\* a row of the river layer: reach i drains into reach down, reach up drains
\* into it (0: none)
ReachRow(i, down, up, order) ==
    [COMID |-> IntV(i), geom |-> RiverGeoms[i], order |-> IntV(order), uparea |-> NaN,
     NextDownID |-> IntV(down), up1 |-> IntV(up), up2 |-> IntV(0),
     up3 |-> IntV(0), up4 |-> IntV(0)]

\* 1 <- 2 <- 3: reach 3 is a headwater, reach 1 the outlet
ChainRows == <<ReachRow(1, 0, 2, 2), ReachRow(2, 1, 3, 1), ReachRow(3, 2, 0, 1)>>
\* a defective layer whose reaches drain in a circle
LoopRows == <<ReachRow(1, 3, 2, 2), ReachRow(2, 1, 3, 1), ReachRow(3, 2, 1, 1)>>

\* the unit catchment of each reach, a polygon given by the cells it covers;
\* the catchments are valid, disjoint, adjacent and without holes
UnitCells == <<1..6, 7..9, 10..30>>
Catchments(ids) == [c \in ids |-> UnitCells[c]]

\* the spatial inputs of a run: river layer and unit catchment layer
World(cols, rows, ids) ==
    [riv |-> [cols |-> cols, rows |-> rows], cat |-> Catchments(ids)]
Worlds ==
    {World({"NextDownID", "up1", "order"}, ChainRows, {1, 2, 3}),
     World({"order"}, ChainRows, {1, 2, 3}),
     World({"NextDownID"}, LoopRows, {1, 2, 3}),
     World({"up1", "order"}, ChainRows, {1, 2})}

\* the defaults of CONFIG: area_tol in percent (0.20 is 20)
DefaultConfig ==
    [snap_dist_m |-> 2, order_first |-> FALSE, max_up_reach |-> 100000, area_tol |-> 20]

\* CONFIG: the defaults, or one of them set to another value
Configs ==
    {DefaultConfig,
     [DefaultConfig EXCEPT !.snap_dist_m = 1],
     [DefaultConfig EXCEPT !.order_first = TRUE],
     [DefaultConfig EXCEPT !.max_up_reach = 2],
     [DefaultConfig EXCEPT !.area_tol = 2]}

\* a row of df_info after read_site_info and normalize_area_to_m2; lon and
\* lat stand for the projected position of the station
Station(code, lon, lat, area_m2) ==
    [code |-> code, lon |-> lon, lat |-> lat, area_m2 |-> area_m2]
StationPool ==
    <<Station(Code(0, 100), 5, 2, IntV(20)),
      Station(Code(0, 200), 0, 0, NaN),
      Station(Code(0, 300), 2, 2, IntV(30)),
      Station(Code(2, 7), 3, 0, IntV(30))>>

\* the station tables: up to max stations of the pool, in the pool's order
StationTables(max) ==
    {[i \in 1..Cardinality(S) |-> StationPool[SortedSeq(S)[i]]] :
        S \in {T \in SUBSET DOMAIN StationPool : Cardinality(T) \in 1..max}}

\* the ledgers a run may find: none, or the one a run of station "100" left
PriorLedgers ==
    {NoLedger, LedgerFile(<<[code |-> Code(0, 100), status |-> "ok", msg |-> ""]>>)}

(***************************************************************************)
(* process_one_site and process_station_worker.                            *)
(***************************************************************************)
NoGdf == [has |-> FALSE, cells |-> {}]

\* a mutant: the fail result is built without its message
FailResult_NoMsg(code, msg) ==
    [code |-> code, status |-> "fail", COMID |-> 0, dist2 |-> 0, n_up |-> 0,
     area |-> 0, gdf |-> NoGdf, msg |-> ""]

\* a result with status fail: a message and no polygon
FailResult(code, msg) ==
    [code |-> code, status |-> "fail", COMID |-> 0, dist2 |-> 0, n_up |-> 0,
     area |-> 0, gdf |-> NoGdf, msg |-> msg]

\* merge_catchments_fixed_robust on valid, adjacent polygons without holes:
\* repair, gap closing and hole filtering leave the union as it is
merge_catchments_fixed_robust(geoms) == UNION geoms

\* the area of a polygon in the equal-area projection
calc_polygon_area_m2(poly) == Cardinality(poly)

\* the station carries a reference area
HasReference(area_tab) == area_tab.k = "int" /\ area_tab.v > 0

\* relative error <= tolerance: |area - ref| / ref <= tol / 100
WithinTolerance(area, ref, tol) ==
    (IF area >= ref THEN area - ref ELSE ref - area) * 100 <= tol * ref

\* steps (2) to (7) of the orchestrator, after the snap gave p
SiteSteps(code, area_tab, p, cat, G, conf) ==
    IF p.status # "ok" THEN FailResult(code, "no reach within snap_dist_m")
    ELSE
      LET up == bfs_upstream(G, p.COMID)
          sel == {c \in DOMAIN cat : c \in up}
      IN  IF Cardinality(up) > conf.max_up_reach
          THEN FailResult(code, "upstream reaches exceed max_up_reach")
          ELSE IF sel = {} THEN FailResult(code, "no unit catchment")
          ELSE
            LET merged == merge_catchments_fixed_robust({cat[c] : c \in sel})
                area == calc_polygon_area_m2(merged)
                ok == HasReference(area_tab) => WithinTolerance(area, area_tab.v, conf.area_tol)
            IN  [code |-> code, status |-> IF ok THEN "ok" ELSE "reject",
                 COMID |-> p.COMID, dist2 |-> p.dist2, n_up |-> Cardinality(up),
                 area |-> area, gdf |-> [has |-> TRUE, cells |-> merged], msg |-> ""]

\* process_one_site: the set of its possible results
process_one_site(code, lon, lat, area_tab, riv, cat, G, conf) ==
    {SiteSteps(code, area_tab, p, cat, G, conf) :
        p \in pick_nearest_reach(riv, lon, lat, conf.snap_dist_m, conf.order_first)}

\* the globals of a worker process before worker_init
NoData == [loaded |-> FALSE, riv |-> [cols |-> {}, rows |-> <<>>],
           cat |-> Catchments({}), G |-> GraphOf({}, {})]

\* worker_init: the globals it stores
worker_init(riv, cat, G_obj) == [loaded |-> TRUE, riv |-> riv, cat |-> cat, G |-> G_obj]

\* process_station_worker: the set of its possible outcomes, an exception
\* raised (exc) or a result returned (res)
process_station_worker(station, data, conf) ==
    IF ~data.loaded
    THEN {[exc |-> "RuntimeError",
           res |-> FailResult(station.code, "Worker resources not initialized")]}
    ELSE {[exc |-> "", res |-> r] :
            r \in process_one_site(station.code, station.lon, station.lat,
                                   station.area_m2, data.riv, data.cat, data.G, conf)}

\* the except clause of the wrapper: an exception e of process_one_site
\* becomes a fail result
process_station_worker_except(station, e) ==
    [exc |-> "", res |-> FailResult(station.code, e)]

\* the outcome of a future whose worker process died
BrokenPool(st) ==
    [exc |-> "BrokenProcessPool", res |-> FailResult(st.code, "BrokenProcessPool")]

\* a mutant: no except clause around fut.result(), the exception goes on
FutureResult_NoExcept(st, out) ==
    IF out.exc # "" THEN [FailResult(st.code, out.res.msg) EXCEPT !.status = "raised"]
    ELSE out.res

\* res = fut.result() and the except clause around it
FutureResult(st, out) ==
    IF out.exc # "" THEN FailResult(st.code, out.res.msg) ELSE out.res

(***************************************************************************)
(* remove_small_holes and merge_catchments_fixed_robust                    *)
(* (gis_utils.py 118-225 and 228-566).                                     *)
(* The plane of the model is a strip of cells.  A ring encloses a set of   *)
(* cells and may be twisted (it crosses itself); a polygon is an exterior  *)
(* ring and a sequence of interior rings.  Areas are in millionths of a    *)
(* square degree, widths in ten-thousandths of a degree and thresholds in  *)
(* tenths of a square kilometre.                                           *)
(***************************************************************************)
Max(S) == CHOOSE x \in S : \A y \in S : x >= y

\* the area and the width of each cell of the strip: land, a sliver between
\* two unit catchments, a pond, a lake, two ponds at the threshold, land
PlaneArea == <<5000, 3, 50, 600, 100, 99, 5000>>
PlaneWidth == <<50, 1, 7, 24, 10, 9, 50>>
PlaneCells == DOMAIN PlaneArea

Ring(cells, twisted) == [cells |-> cells, twisted |-> twisted]
NoRing == Ring({}, FALSE)

\* shapely geometries: Polygon(shell, holes), MultiPolygon(polygons) and a
\* geometry of another type
Polygon(exterior, interiors) ==
    [kind |-> "Polygon", exterior |-> exterior, interiors |-> interiors, geoms |-> <<>>]
MultiPolygon(polys) ==
    [kind |-> "MultiPolygon", exterior |-> NoRing, interiors |-> <<>>, geoms |-> polys]
LineString == [kind |-> "LineString", exterior |-> NoRing, interiors |-> <<>>, geoms |-> <<>>]
NoGeom == [kind |-> "None", exterior |-> NoRing, interiors |-> <<>>, geoms |-> <<>>]

RECURSIVE SumArea(_)
SumArea(S) == IF S = {} THEN 0 ELSE PlaneArea[Min(S)] + SumArea(S \ {Min(S)})

\* Polygon(ring).area, in millionths of a square degree
RingArea(r) == SumArea(r.cells)

\* the width of a ring at its narrowest
RingWidth(r) == Min({PlaneWidth[c] : c \in r.cells})

\* 1 degree^2 ~ 10,000 km^2
Km2PerDeg2 == 10000

\* a mutant: a ring at the threshold is dropped
fix_polygon_above(poly, min_area_deg2) ==
    IF poly.kind # "Polygon" THEN poly
    ELSE LET keep(r) == RingArea(r) > min_area_deg2
         IN  Polygon(poly.exterior, SelectSeq(poly.interiors, keep))

\* fix_polygon: the exterior and the interior rings of area >= min_area_deg2
fix_polygon(poly, min_area_deg2) ==
    IF poly.kind # "Polygon" THEN poly
    ELSE LET keep(r) == RingArea(r) >= min_area_deg2
         IN  Polygon(poly.exterior, SelectSeq(poly.interiors, keep))

\* remove_small_holes(geom, min_area_km2); min_area_km2 is in tenths of a
\* km^2 and min_area_deg2 = min_area_km2 / 10000.0 in millionths of a deg^2
remove_small_holes(geom, min_area_km2) ==
    LET min_area_deg2 == (min_area_km2 * 1000000) \div (10 * Km2PerDeg2)
    IN  IF geom.kind = "Polygon" THEN fix_polygon(geom, min_area_deg2)
        ELSE IF geom.kind = "MultiPolygon"
        THEN MultiPolygon([k \in DOMAIN geom.geoms |-> fix_polygon(geom.geoms[k], min_area_deg2)])
        ELSE geom

\* g.is_valid: no ring of g crosses itself
is_valid(g) ==
    /\ ~g.exterior.twisted
    /\ \A k \in DOMAIN g.geoms : ~g.geoms[k].exterior.twisted

\* g.buffer(0): the rings are untwisted
buffer0(g) ==
    [g EXCEPT !.exterior.twisted = FALSE,
              !.geoms = [k \in DOMAIN g.geoms |-> [g.geoms[k] EXCEPT !.exterior.twisted = FALSE]]]

\* the cells a polygon covers
Covered(g) == g.exterior.cells \ UNION {g.interiors[k].cells : k \in DOMAIN g.interiors}

\* the polygon that covers the cells S: its exterior encloses the cells
\* from the first to the last of S, each cell in between that S lacks is an
\* interior ring
FromCovered(S) ==
    IF S = {} THEN Polygon(NoRing, <<>>)
    ELSE LET hull == Min(S)..Max(S)
             holes == SortedSeq(hull \ S)
         IN  Polygon(Ring(hull, FALSE), [k \in DOMAIN holes |-> Ring({holes[k]}, FALSE)])

\* unary_union(geoms): the set of its outcomes; on an invalid input GEOS
\* may raise a TopologyException or return a result
unary_union(geoms) ==
    LET res == FromCovered(UNION {Covered(geoms[k]) : k \in DOMAIN geoms})
    IN  IF \A k \in DOMAIN geoms : is_valid(geoms[k])
        THEN {[exc |-> "", geom |-> res]}
        ELSE {[exc |-> "", geom |-> res], [exc |-> "GEOSException", geom |-> NoGeom]}

\* g.buffer(d).buffer(-d): an interior ring no wider than 2d is closed
buffer_close(g, d) ==
    LET open(r) == RingWidth(r) > 2 * d
    IN  [g EXCEPT !.interiors = SelectSeq(g.interiors, open)]

\* the defaults of merge_catchments_fixed_robust: buffer_dist = 0.0001 and
\* min_hole_km2 = 1.0
DefaultBufferDist == 1
DefaultMinHole == 10

\* the sequences over S of length 0..n
SeqsUpTo(S, n) == UNION {[1..k -> S] : k \in 0..n}

\* the polygons of the strip with up to n interior rings, one cell each
HolePolygons(n) ==
    {Polygon(Ring(PlaneCells, FALSE), [k \in DOMAIN hs |-> Ring({hs[k]}, FALSE)]) :
        hs \in {s \in SeqsUpTo(PlaneCells \ {Min(PlaneCells), Max(PlaneCells)}, n) :
                   \A i, j \in DOMAIN s : i # j => s[i] # s[j]}}

\* the geometries remove_small_holes is applied to
HoleGeoms ==
    HolePolygons(MaxHoles)
        \cup {MultiPolygon(ps) : ps \in SeqsUpTo(HolePolygons(1), MaxParts) \ {<<>>}}
        \cup {LineString}

\* the polygon of the example: rings of about 0.5 km^2 and 6 km^2
ExamplePolygon == Polygon(Ring(PlaneCells, FALSE), <<Ring({3}, FALSE), Ring({4}, FALSE)>>)

\* the unit catchments given to the merge: one or two neighbouring cells,
\* the ring valid or twisted
UnitPolygons ==
    {Polygon(Ring(a..Lo(a + n, Max(PlaneCells)), t), <<>>) :
        a \in PlaneCells, n \in {0, 1}, t \in BOOLEAN}

(***************************************************************************)
(* normalize_area_to_m2 (io.py 467-479).                                   *)
(* A cell of the area column is missing (NaN) or a decimal number m * 10^e *)
(* kept in its shortest form (m = 0 and e = 0, or m no multiple of 10), so *)
(* that equal numbers are equal records.                                   *)
(***************************************************************************)
RECURSIVE Pow10(_)
Pow10(n) == IF n = 0 THEN 1 ELSE 10 * Pow10(n - 1)

RECURSIVE Num(_, _)
Num(m, e) ==
    IF m = 0 THEN [nan |-> FALSE, m |-> 0, e |-> 0]
    ELSE IF m % 10 = 0 THEN Num(m \div 10, e + 1)
    ELSE [nan |-> FALSE, m |-> m, e |-> e]

NoArea == [nan |-> TRUE, m |-> 0, e |-> 0]

\* the digits of a and b as integers of one common exponent (zero has any
\* exponent)
CommonExp(a, b) == IF a.m = 0 THEN b.e ELSE IF b.m = 0 THEN a.e ELSE Lo(a.e, b.e)
Digits(x, lo) == IF x.m = 0 THEN 0 ELSE x.m * Pow10(x.e - lo)

\* the number of decimal digits of the positive integer n
RECURSIVE NDigits(_)
NDigits(n) == IF n < 10 THEN 1 ELSE 1 + NDigits(n \div 10)

\* a < b for positive numbers: by their orders of magnitude, then by their
\* digits
PosLt(a, b) ==
    IF NDigits(a.m) + a.e # NDigits(b.m) + b.e
    THEN NDigits(a.m) + a.e < NDigits(b.m) + b.e
    ELSE Digits(a, CommonExp(a, b)) < Digits(b, CommonExp(a, b))

\* a < b, a + b and a / 2 on numbers
NumLt(a, b) ==
    IF a.m > 0 /\ b.m > 0 THEN PosLt(a, b)
    ELSE IF a.m < 0 /\ b.m < 0 THEN PosLt([b EXCEPT !.m = -b.m], [a EXCEPT !.m = -a.m])
    ELSE a.m < b.m
NumAdd(a, b) == Num(Digits(a, CommonExp(a, b)) + Digits(b, CommonExp(a, b)), CommonExp(a, b))
NumHalf(a) == Num(a.m * 5, a.e - 1)

\* x * 1_000_000.0: a missing value stays missing
Times1e6(x) == IF x.nan THEN x ELSE Num(x.m, x.e + 6)

\* AREA_UNIT_THRESHOLD = 1e6
AREA_UNIT_THRESHOLD == Num(1, 6)

\* series.dropna()
dropna(s) == LET present(x) == ~x.nan IN SelectSeq(s, present)

\* the values of s in ascending order
RECURSIVE InsertNum(_, _)
InsertNum(x, s) ==
    IF s = <<>> THEN <<x>>
    ELSE IF NumLt(Head(s), x) THEN <<Head(s)>> \o InsertNum(x, Tail(s))
    ELSE <<x>> \o s
RECURSIVE SortNums(_)
SortNums(s) == IF s = <<>> THEN <<>> ELSE InsertNum(Head(s), SortNums(Tail(s)))

\* s.median() of a series without missing values: the middle value, or the
\* mean of the two middle values
median(s) ==
    LET sorted == SortNums(s)
        n == Len(s)
    IN  IF n % 2 = 1 THEN sorted[(n + 1) \div 2]
        ELSE NumHalf(NumAdd(sorted[n \div 2], sorted[n \div 2 + 1]))

\* a mutant: a median equal to the threshold is converted too
normalize_area_to_m2_le(series_area) ==
    LET s == dropna(series_area)
    IN  IF s = <<>> THEN series_area
        ELSE IF ~NumLt(AREA_UNIT_THRESHOLD, median(s))
        THEN [i \in DOMAIN series_area |-> Times1e6(series_area[i])]
        ELSE series_area

normalize_area_to_m2(series_area) ==
    LET s == dropna(series_area)
    IN  IF s = <<>> THEN series_area
        ELSE IF NumLt(median(s), AREA_UNIT_THRESHOLD)
        THEN [i \in DOMAIN series_area |-> Times1e6(series_area[i])]
        ELSE series_area

\* the area columns of the model: areas in km^2 (-5, 0, 0.5, 7, 1500, 2000,
\* 2500, 990000, 1e6) and areas in m^2 (990000, 1e6, 1.5e9, 2e9), with
\* missing values
AreasKm2 ==
    {NoArea, Num(-5, 0), Num(0, 0), Num(5, -1), Num(7, 0), Num(15, 2), Num(2, 3),
     Num(25, 2), Num(99, 4), Num(1, 6)}
AreasM2 == {NoArea, Num(99, 4), Num(1, 6), Num(15, 8), Num(2, 9)}
AreaColumns == SeqsUpTo(AreasKm2, MaxSeries) \cup SeqsUpTo(AreasM2, MaxSeries)

(***************************************************************************)
(* read_site_info (io.py 200-363).                                         *)
(* A sheet is [cols, rows]: the standard names of the columns it has and   *)
(* its rows.  A code cell is text, text with blanks around it, or missing; *)
(* a coordinate or area cell is a number, a numeral as text, other text or *)
(* missing.                                                                *)
(***************************************************************************)
SiteCols == {"code", "lon", "lat", "area"}

CodeCell(kind, code) == [kind |-> kind, code |-> code]
CodeMissing == CodeCell("nan", Code(0, 0))

\* the text "nan"
TextNan == [kind |-> "text", code |-> Code(0, -1)]

\* out["code"].astype(str).str.strip(): blanks around a text are removed; a
\* missing cell becomes the text "nan" (na_text, pandas before 3.0) or
\* stays missing (pandas 3.0 and its str dtype)
astype_str_strip(c, na_text) ==
    IF c.kind = "nan" THEN (IF na_text THEN TextNan ELSE c)
    ELSE CodeCell("text", c.code)

\* pd.to_numeric(x, errors="coerce")
to_numeric(x) == IF x.k \in {"int", "str"} THEN IntV(x.v) ELSE NaN

\* a row of the sheet after the cleaning, with its index label
CleanRow(i, row, na_text) ==
    [idx |-> i, code |-> astype_str_strip(row.code, na_text), lon |-> to_numeric(row.lon),
     lat |-> to_numeric(row.lat), area |-> to_numeric(row.area)]

\* the cleaning and out.dropna(subset=["code", "lon", "lat"])
CleanSheet(rows, na_text) ==
    LET clean == [i \in DOMAIN rows |-> CleanRow(i, rows[i], na_text)]
        kept(r) == r.code.kind # "nan" /\ r.lon # NaN /\ r.lat # NaN
    IN  SelectSeq(clean, kept)

NoSheet == [exc |-> "", sheet |-> 0, rows |-> <<>>]

\* read_site_info: the first sheet that has the four columns, cleaned; a
\* RuntimeError when no sheet has them.  The set of its outcomes, one for
\* each behaviour of astype(str).
read_site_info(book) ==
    LET good == {k \in DOMAIN book : SiteCols \subseteq book[k].cols}
    IN  IF good = {} THEN {[exc |-> "RuntimeError", sheet |-> 0, rows |-> <<>>]}
        ELSE {[exc |-> "", sheet |-> Min(good),
               rows |-> CleanSheet(book[Min(good)].rows, na_text)] : na_text \in BOOLEAN}

\* the workbooks of the model: a sheet of up to MaxSheetRows rows, alone or
\* after a sheet without the area column, or that sheet alone.  A row has
\* every combination of a present or missing code, longitude and latitude
\* with an area, or is complete but for its area
SiteRows ==
    [code : {CodeCell("text", Code(0, 100)), CodeCell("padded", Code(0, 200)), CodeMissing},
     lon : {IntV(5), TextV, NaN},
     lat : {IntV(2), NaN},
     area : {IntV(20)}]
        \cup {[code |-> CodeCell("text", Code(0, 100)), lon |-> IntV(5), lat |-> IntV(2),
               area |-> NaN]}
OtherSheet == [cols |-> {"code", "lon", "lat"}, rows |-> <<>>]
Workbooks ==
    {<<OtherSheet>>}
        \cup {<<[cols |-> SiteCols, rows |-> rs]>> : rs \in SeqsUpTo(SiteRows, MaxSheetRows)}
        \cup {<<OtherSheet, [cols |-> SiteCols, rows |-> rs]>> :
                 rs \in SeqsUpTo(SiteRows, MaxSheetRows)}

(***************************************************************************)
(* The values the variables of a specification hold while another one     *)
(* runs.                                                                  *)
(***************************************************************************)
NotBuilt == [status |-> "pending", G |-> GraphOf({}, {})]
NoTable == [cols |-> {}, rows |-> <<>>]

IdleBfs ==
    /\ bG = GraphOf({}, {})
    /\ bOutlet = 1
    /\ visited = {}
    /\ q = <<>>
    /\ bpc = "idle"
    /\ bResult = {}
    /\ enq = [n \in Nodes |-> 0]
    /\ expd = [n \in Nodes |-> 0]

IdleBuild ==
    /\ tbl = NoTable
    /\ built = NotBuilt

IdlePick ==
    /\ pk = [riv |-> [cols |-> {}, rows |-> <<>>], x |-> 0, y |-> 0,
             snap_dist_m |-> 0, order_first |-> FALSE]
    /\ pickRes = [status |-> "pending", COMID |-> 0, dist2 |-> 0, order |-> 0, uparea |-> 0]

IdleMain ==
    /\ world = World({}, <<>>, {})
    /\ CONFIG = [snap_dist_m |-> 0, order_first |-> FALSE, max_up_reach |-> 0, area_tol |-> 0]
    /\ cpus = 1
    /\ excel = <<>>
    /\ df_info = <<>>
    /\ ledger = NoLedger
    /\ mpc = "idle"
    /\ stations = <<>>
    /\ Gmain = NotBuilt
    /\ wk = <<>>
    /\ fut = <<>>
    /\ summary_rows = <<>>
    /\ all_catchments = <<>>
    /\ cnt = [ok |-> 0, reject |-> 0, fail |-> 0]

IdleHoles ==
    /\ hGeom = NoGeom
    /\ hMin = 0
    /\ hOut = NoGeom
    /\ hpc = "idle"

IdleMerge ==
    /\ geometries = <<>>
    /\ min_hole = 0
    /\ clean_geoms = <<>>
    /\ invalid_count = 0
    /\ gmerged = NoGeom
    /\ gpc = "idle"
    /\ stages = <<>>

IdleGeo == IdleHoles /\ IdleMerge

IdleNorm ==
    /\ nSeries = <<>>
    /\ nOut = <<>>
    /\ npc = "idle"

IdleRead ==
    /\ rBook = <<>>
    /\ rOut = NoSheet
    /\ rpc = "idle"

IdleIo == IdleNorm /\ IdleRead

(***************************************************************************)
(* SpecBfs: bfs_upstream step by step.                                    *)
(***************************************************************************)
InitBfs ==
    /\ bG \in Graphs
    /\ bOutlet \in Nodes
    /\ visited = {}
    /\ q = <<>>
    /\ bpc = "call"
    /\ bResult = {}
    /\ enq = [n \in Nodes |-> 0]
    /\ expd = [n \in Nodes |-> 0]
    /\ IdleBuild
    /\ IdlePick
    /\ IdleMain
    /\ IdleGeo
    /\ IdleIo

\* visited = set([outlet]); q = deque([outlet])
BfsEnter ==
    /\ bpc = "call"
    /\ visited' = {bOutlet}
    /\ q' = <<bOutlet>>
    /\ enq' = [enq EXCEPT ![bOutlet] = @ + 1]
    /\ bpc' = "loop"
    /\ UNCHANGED <<bG, bOutlet, bResult, expd, buildVars, pickVars, mainVars, geoVars, ioVars>>

\* one iteration of the while loop; a set is iterated in any order
BfsLoop ==
    /\ bpc = "loop"
    /\ q # <<>>
    /\ \E ord \in Orders(Get(bG, Head(q))) :
          LET r == BfsIter(bG, visited, q, ord)
              added == [i \in 1..(Len(r.q) - Len(q) + 1) |-> r.q[Len(q) - 1 + i]]
          IN  /\ visited' = r.visited
              /\ q' = r.q
              /\ expd' = [expd EXCEPT ![Head(q)] = @ + 1]
              /\ enq' = [n \in Nodes |->
                           enq[n] + Cardinality({i \in DOMAIN added : added[i] = n})]
    /\ bG' = GetEffect(bG, Head(q))
    /\ UNCHANGED <<bOutlet, bpc, bResult, buildVars, pickVars, mainVars, geoVars, ioVars>>

\* the loop condition fails: return visited
BfsReturn ==
    /\ bpc = "loop"
    /\ q = <<>>
    /\ bResult' = visited
    /\ bpc' = "done"
    /\ UNCHANGED <<bG, bOutlet, visited, q, enq, expd, buildVars, pickVars, mainVars, geoVars, ioVars>>

NextBfs == BfsEnter \/ BfsLoop \/ BfsReturn

SpecBfs == InitBfs /\ [][NextBfs]_vars

FairBfs == InitBfs /\ [][NextBfs]_vars /\ WF_vars(NextBfs)

(***************************************************************************)
(* SpecBuild: build_upstream_graph applied to a reach table.              *)
(***************************************************************************)
InitBuild ==
    /\ \E cols \in SUBSET TopoCols, n \in 1..MaxRows :
          \E D \in DefectSets(n, cols, MaxDefects) :
             tbl = [cols |-> cols, rows |-> TableRows(n, cols, D)]
    /\ built = NotBuilt
    /\ IdleBfs
    /\ IdlePick
    /\ IdleMain
    /\ IdleGeo
    /\ IdleIo

\* G = build_upstream_graph(gdf_riv)
BuildGraph ==
    /\ built.status = "pending"
    /\ tbl # NoTable
    /\ built' = build_upstream_graph(tbl)
    /\ UNCHANGED <<tbl, bfsVars, pickVars, mainVars, geoVars, ioVars>>

NextBuild == BuildGraph

SpecBuild == InitBuild /\ [][NextBuild]_vars

(***************************************************************************)
(* SpecPick: pick_nearest_reach applied to a station and a river table.    *)
(***************************************************************************)
InitPick ==
    /\ pk \in [riv : RiverTables, x : 0..MaxCoord, y : 0..MaxCoord,
               snap_dist_m : 1..MaxSnap, order_first : BOOLEAN]
    /\ pickRes = [status |-> "pending", COMID |-> 0, dist2 |-> 0, order |-> 0, uparea |-> 0]
    /\ IdleBfs
    /\ IdleBuild
    /\ IdleMain
    /\ IdleGeo
    /\ IdleIo

\* pick_nearest_reach(gdf_riv_m, lon, lat, gdf_riv_wgs84, snap_dist_m, order_first)
Pick ==
    /\ pickRes.status = "pending"
    /\ pk.snap_dist_m > 0
    /\ pickRes' \in pick_nearest_reach(pk.riv, pk.x, pk.y, pk.snap_dist_m, pk.order_first)
    /\ UNCHANGED <<pk, bfsVars, buildVars, mainVars, geoVars, ioVars>>

NextPick == Pick

SpecPick == InitPick /\ [][NextPick]_vars

(***************************************************************************)
(* Spec: one run of main(), the worker processes of its pool included.     *)
(***************************************************************************)
NoFuture == [state |-> "pending", worker |-> 0, out |-> [exc |-> "", res |-> FailResult(Code(0, 0), "")]]

InitMain ==
    /\ world \in Worlds
    /\ CONFIG \in Configs
    /\ cpus \in {1, MaxCpu}
    /\ excel \in StationTables(MaxStations)
    /\ df_info = excel
    /\ ledger \in PriorLedgers
    /\ mpc = "start"
    /\ stations = <<>>
    /\ Gmain = NotBuilt
    /\ wk = <<>>
    /\ fut = <<>>
    /\ summary_rows = <<>>
    /\ all_catchments = <<>>
    /\ cnt = [ok |-> 0, reject |-> 0, fail |-> 0]
    /\ IdleBfs
    /\ IdleBuild
    /\ IdlePick
    /\ IdleGeo
    /\ IdleIo

\* a resume check without its except clause: the exception ends main
ResumeCheck_NoExcept ==
    /\ mpc = "start"
    /\ df_info' = IF ResumeRaises(ledger) THEN df_info
                  ELSE Pending(df_info, Completed(ledger))
    /\ mpc' = IF ResumeRaises(ledger) THEN "aborted"
              ELSE IF df_info' = <<>> THEN "exit" ELSE "load"
    /\ UNCHANGED <<world, excel, CONFIG, cpus, ledger, stations, Gmain, wk, fut,
                   summary_rows, all_catchments, cnt, bfsVars, buildVars, pickVars, geoVars, ioVars>>

\* the resume check: stations whose ledger row says ok are dropped; when
\* reading the ledger raises, the except clause leaves completed empty
ResumeCheck ==
    /\ mpc = "start"
    /\ df_info' = Pending(df_info, IF ResumeRaises(ledger) THEN {} ELSE Completed(ledger))
    /\ mpc' = IF df_info' = <<>> THEN "exit" ELSE "load"
    /\ UNCHANGED <<world, excel, CONFIG, cpus, ledger, stations, Gmain, wk, fut,
                   summary_rows, all_catchments, cnt, bfsVars, buildVars, pickVars, geoVars, ioVars>>

\* the spatial data are read and G = build_upstream_graph(gdf_riv) is run;
\* an exception ends main
BuildTopology ==
    /\ mpc = "load"
    /\ Gmain' = build_upstream_graph(world.riv)
    /\ mpc' = IF Gmain'.status = "ok" THEN "pool" ELSE "aborted"
    /\ UNCHANGED <<world, excel, CONFIG, cpus, df_info, ledger, stations, wk, fut,
                   summary_rows, all_catchments, cnt, bfsVars, buildVars, pickVars, geoVars, ioVars>>

\* the task list is made and the pool is created; no worker process runs yet
StartPool ==
    /\ mpc = "pool"
    /\ stations' = [i \in DOMAIN df_info |-> StationDict(df_info[i])]
    /\ wk' = [w \in 1..n_workers(cpus) |-> [state |-> "off", data |-> NoData, task |-> 0, inits |-> 0]]
    /\ fut' = <<>>
    /\ mpc' = "submit"
    /\ UNCHANGED <<world, excel, CONFIG, cpus, df_info, ledger, Gmain,
                   summary_rows, all_catchments, cnt, bfsVars, buildVars, pickVars, geoVars, ioVars>>

\* a worker process of the pool has died: the pool is broken
PoolBroken == \E w \in DOMAIN wk : wk[w].state = "exited"

\* main() is submitting the tasks or collecting their results: the worker
\* processes run
PoolRunning == mpc \in {"submit", "collect"}

\* exe.submit(process_station_worker, st) for the next station of the list,
\* while the workers run; on a broken pool submit raises BrokenProcessPool,
\* which nothing catches: main() ends. After the last submit the loop over
\* as_completed starts.
Submit ==
    /\ mpc = "submit"
    /\ IF PoolBroken
       THEN /\ mpc' = "aborted"
            /\ UNCHANGED fut
       ELSE /\ fut' = Append(fut, NoFuture)
            /\ mpc' = IF Len(fut') = Len(stations) THEN "collect" ELSE "submit"
    /\ UNCHANGED <<world, excel, CONFIG, cpus, df_info, ledger, stations, Gmain, wk,
                   summary_rows, all_catchments, cnt, bfsVars, buildVars, pickVars, geoVars, ioVars>>

\* a pool whose initializer loads the datasets in the first worker only
WorkerInit_FirstOnly(w) ==
    /\ PoolRunning
    /\ fut # <<>>
    /\ wk[w].state = "off"
    /\ wk' = [wk EXCEPT ![w] = [state |-> "idle",
                                data |-> IF w = 1 THEN worker_init(world.riv, world.cat, Gmain.G)
                                                  ELSE NoData,
                                task |-> 0, inits |-> @.inits + 1]]
    /\ UNCHANGED <<world, excel, CONFIG, cpus, df_info, ledger, mpc, stations, Gmain, fut,
                   summary_rows, all_catchments, cnt, bfsVars, buildVars, pickVars, geoVars, ioVars>>

\* a worker process starts and runs its initializer
WorkerInit(w) ==
    /\ PoolRunning
    /\ fut # <<>>
    /\ wk[w].state = "off"
    /\ wk' = [wk EXCEPT ![w] = [state |-> "idle",
                                data |-> worker_init(world.riv, world.cat, Gmain.G),
                                task |-> 0, inits |-> @.inits + 1]]
    /\ UNCHANGED <<world, excel, CONFIG, cpus, df_info, ledger, mpc, stations, Gmain, fut,
                   summary_rows, all_catchments, cnt, bfsVars, buildVars, pickVars, geoVars, ioVars>>

\* a worker that runs the initializer again for every task it takes
TaskStart_Reload(w) ==
    /\ PoolRunning
    /\ wk[w].state = "idle"
    /\ \E i \in DOMAIN fut :
          /\ fut[i].state = "pending"
          /\ \A j \in 1..(i - 1) : fut[j].state # "pending"
          /\ fut' = [fut EXCEPT ![i].state = "running", ![i].worker = w]
          /\ wk' = [wk EXCEPT ![w].state = "busy", ![w].task = i,
                              ![w].data = worker_init(world.riv, world.cat, Gmain.G),
                              ![w].inits = @ + 1]
    /\ UNCHANGED <<world, excel, CONFIG, cpus, df_info, ledger, mpc, stations, Gmain,
                   summary_rows, all_catchments, cnt, bfsVars, buildVars, pickVars, geoVars, ioVars>>

\* an idle worker takes the next task of the call queue
TaskStart(w) ==
    /\ PoolRunning
    /\ wk[w].state = "idle"
    /\ \E i \in DOMAIN fut :
          /\ fut[i].state = "pending"
          /\ \A j \in 1..(i - 1) : fut[j].state # "pending"
          /\ fut' = [fut EXCEPT ![i].state = "running", ![i].worker = w]
          /\ wk' = [wk EXCEPT ![w].state = "busy", ![w].task = i]
    /\ UNCHANGED <<world, excel, CONFIG, cpus, df_info, ledger, mpc, stations, Gmain,
                   summary_rows, all_catchments, cnt, bfsVars, buildVars, pickVars, geoVars, ioVars>>

\* process_station_worker returns or raises: the future completes
TaskDone(w) ==
    /\ PoolRunning
    /\ wk[w].state = "busy"
    /\ \E out \in process_station_worker(stations[wk[w].task], wk[w].data, CONFIG) :
          fut' = [fut EXCEPT ![wk[w].task].state = "done", ![wk[w].task].out = out]
    /\ wk' = [wk EXCEPT ![w].state = "idle", ![w].task = 0]
    /\ UNCHANGED <<world, excel, CONFIG, cpus, df_info, ledger, mpc, stations, Gmain,
                   summary_rows, all_catchments, cnt, bfsVars, buildVars, pickVars, geoVars, ioVars>>

\* one iteration of the loop over as_completed(future_to_station)
Collect(i) ==
    /\ mpc = "collect"
    /\ fut[i].state = "done"
    /\ LET res == FutureResult(stations[i], fut[i].out)
       IN  IF res.status = "raised"
           THEN \* an exception nothing catches leaves the loop and main()
                /\ mpc' = "aborted"
                /\ UNCHANGED <<summary_rows, all_catchments>>
           ELSE /\ mpc' = mpc
                /\ summary_rows' = Append(summary_rows, res)
                /\ all_catchments' = IF res.status = "ok" /\ res.gdf.has
                                     THEN Append(all_catchments, res.gdf)
                                     ELSE all_catchments
    /\ fut' = [fut EXCEPT ![i].state = "collected"]
    /\ UNCHANGED <<world, excel, CONFIG, cpus, df_info, ledger, stations, Gmain, wk,
                   cnt, bfsVars, buildVars, pickVars, geoVars, ioVars>>

\* a main() that writes summary.csv without waiting for the loop to end
WriteSummary_Early ==
    /\ mpc = "collect"
    /\ wk' = [w \in DOMAIN wk |-> [wk[w] EXCEPT !.state = "exited"]]
    /\ ledger' = ToCsv(summary_rows)
    /\ mpc' = "chart"
    /\ UNCHANGED <<world, excel, CONFIG, cpus, df_info, stations, Gmain, fut,
                   summary_rows, all_catchments, cnt, bfsVars, buildVars, pickVars, geoVars, ioVars>>

\* the loop is over: the pool shuts down and summary.csv is written
WriteSummary ==
    /\ mpc = "collect"
    /\ \A i \in DOMAIN fut : fut[i].state = "collected"
    /\ wk' = [w \in DOMAIN wk |-> [wk[w] EXCEPT !.state = "exited"]]
    /\ ledger' = ToCsv(summary_rows)
    /\ mpc' = "chart"
    /\ UNCHANGED <<world, excel, CONFIG, cpus, df_info, stations, Gmain, fut,
                   summary_rows, all_catchments, cnt, bfsVars, buildVars, pickVars, geoVars, ioVars>>

\* cnt = df_summary["status"].value_counts(), the chart and the final log
Finish ==
    /\ mpc = "chart"
    /\ cnt' = [s \in {"ok", "reject", "fail"} |->
                 Cardinality({i \in DOMAIN summary_rows : summary_rows[i].status = s})]
    /\ mpc' = "done"
    /\ UNCHANGED <<world, excel, CONFIG, cpus, df_info, ledger, stations, Gmain, wk, fut,
                   summary_rows, all_catchments, bfsVars, buildVars, pickVars, geoVars, ioVars>>

Next ==
    \/ ResumeCheck
    \/ BuildTopology
    \/ StartPool
    \/ Submit
    \/ \E w \in DOMAIN wk : WorkerInit(w)
    \/ \E w \in DOMAIN wk : TaskStart(w)
    \/ \E w \in DOMAIN wk : TaskDone(w)
    \/ \E i \in DOMAIN fut : Collect(i)
    \/ WriteSummary
    \/ Finish

Spec == InitMain /\ [][Next]_vars

ChainWorld == World({"NextDownID", "up1", "order"}, ChainRows, {1, 2, 3})

(***************************************************************************)
(* SpecFault: a run of main() in which a station task may also raise an    *)
(* unexpected exception and a worker process may die.                      *)
(***************************************************************************)
InitFault ==
    /\ InitMain
    /\ CONFIG = DefaultConfig
    /\ ledger = NoLedger

\* process_one_site raises an exception: the wrapper returns a fail result
TaskRaise(w) ==
    /\ PoolRunning
    /\ wk[w].state = "busy"
    /\ fut' = [fut EXCEPT ![wk[w].task].state = "done",
                          ![wk[w].task].out =
                              process_station_worker_except(stations[wk[w].task], "unexpected")]
    /\ wk' = [wk EXCEPT ![w].state = "idle", ![w].task = 0]
    /\ UNCHANGED <<world, excel, CONFIG, cpus, df_info, ledger, mpc, stations, Gmain,
                   summary_rows, all_catchments, cnt, bfsVars, buildVars, pickVars, geoVars, ioVars>>

\* a worker process dies in a task: the pool is broken, the other workers
\* are stopped and every future not yet completed raises BrokenProcessPool
WorkerCrash(w) ==
    /\ PoolRunning
    /\ wk[w].state = "busy"
    /\ fut' = [i \in DOMAIN fut |->
                 IF fut[i].state \in {"pending", "running"}
                 THEN [fut[i] EXCEPT !.state = "done", !.out = BrokenPool(stations[i])]
                 ELSE fut[i]]
    /\ wk' = [v \in DOMAIN wk |-> [wk[v] EXCEPT !.state = "exited", !.task = 0]]
    /\ UNCHANGED <<world, excel, CONFIG, cpus, df_info, ledger, mpc, stations, Gmain,
                   summary_rows, all_catchments, cnt, bfsVars, buildVars, pickVars, geoVars, ioVars>>

NextFault ==
    \/ Next
    \/ \E w \in DOMAIN wk : TaskRaise(w)
    \/ \E w \in DOMAIN wk : WorkerCrash(w)

SpecFault == InitFault /\ [][NextFault]_vars

\* main(), the pool and the started workers keep running: a step of Next
\* that is possible is taken in the end; no exception and no death of a
\* worker is ever required to happen
\* the chain with an infinite value in a topology field of the headwater
InfWorld ==
    World({"NextDownID", "up1", "order"}, [ChainRows EXCEPT ![3].up1 = Inf], {1, 2, 3})

InitFair ==
    /\ world \in Worlds \cup {InfWorld}
    /\ excel = SubSeq(StationPool, 1, MaxStations)
    /\ df_info = excel
    /\ CONFIG = DefaultConfig
    /\ cpus \in {1, MaxCpu}
    /\ ledger = NoLedger
    /\ mpc = "start"
    /\ stations = <<>>
    /\ Gmain = NotBuilt
    /\ wk = <<>>
    /\ fut = <<>>
    /\ summary_rows = <<>>
    /\ all_catchments = <<>>
    /\ cnt = [ok |-> 0, reject |-> 0, fail |-> 0]
    /\ IdleBfs
    /\ IdleBuild
    /\ IdlePick
    /\ IdleGeo
    /\ IdleIo

FairFault == InitFair /\ [][NextFault]_vars /\ WF_vars(Next)

(***************************************************************************)
(* SpecResume: a run of main() that finds the ledger of an earlier run.    *)
(***************************************************************************)
\* the ledgers a run over up to max stations of the pool can leave
RunLedgers(max) ==
    {ToCsv([i \in DOMAIN t |->
              IF st[i] = "fail" THEN FailResult(t[i].code, "unexpected")
              ELSE [FailResult(t[i].code, "") EXCEPT !.status = st[i]]]) :
        t \in StationTables(max), st \in [1..max -> {"ok", "reject", "fail"}]}

InitResume ==
    /\ world = ChainWorld
    /\ CONFIG = DefaultConfig
    /\ cpus = 1
    /\ excel \in StationTables(MaxStations)
    /\ df_info = excel
    /\ ledger \in {NoLedger} \cup RunLedgers(MaxStations) \cup BadLedgers
    /\ mpc = "start"
    /\ stations = <<>>
    /\ Gmain = NotBuilt
    /\ wk = <<>>
    /\ fut = <<>>
    /\ summary_rows = <<>>
    /\ all_catchments = <<>>
    /\ cnt = [ok |-> 0, reject |-> 0, fail |-> 0]
    /\ IdleBfs
    /\ IdleBuild
    /\ IdlePick
    /\ IdleGeo
    /\ IdleIo

SpecResume == InitResume /\ [][Next]_vars

(***************************************************************************)
(* SpecPool: a run of main() on a machine of 1..MaxCores cores.            *)
(***************************************************************************)
InitPool ==
    /\ world = ChainWorld
    /\ CONFIG = DefaultConfig
    /\ cpus \in 1..MaxCores
    /\ excel = SubSeq(StationPool, 1, MaxStations)
    /\ df_info = excel
    /\ ledger = NoLedger
    /\ mpc = "start"
    /\ stations = <<>>
    /\ Gmain = NotBuilt
    /\ wk = <<>>
    /\ fut = <<>>
    /\ summary_rows = <<>>
    /\ all_catchments = <<>>
    /\ cnt = [ok |-> 0, reject |-> 0, fail |-> 0]
    /\ IdleBfs
    /\ IdleBuild
    /\ IdlePick
    /\ IdleGeo
    /\ IdleIo

SpecPool == InitPool /\ [][Next]_vars

(***************************************************************************)
(* SpecHoles: remove_small_holes applied to a geometry.                   *)
(***************************************************************************)
InitHoles ==
    /\ hGeom \in HoleGeoms
    /\ hMin \in {5, DefaultMinHole, 50}
    /\ hOut = NoGeom
    /\ hpc = "call"
    /\ IdleBfs
    /\ IdleBuild
    /\ IdlePick
    /\ IdleMain
    /\ IdleMerge
    /\ IdleIo

RemoveSmallHoles ==
    /\ hpc = "call"
    /\ hOut' = remove_small_holes(hGeom, hMin)
    /\ hpc' = "done"
    /\ UNCHANGED <<hGeom, hMin, bfsVars, buildVars, pickVars, mainVars, mergeVars, ioVars>>

NextHoles == RemoveSmallHoles

SpecHoles == InitHoles /\ [][NextHoles]_vars

(***************************************************************************)
(* SpecMerge: merge_catchments_fixed_robust, one action per stage.        *)
(***************************************************************************)
InitMerge ==
    /\ geometries \in SeqsUpTo(UnitPolygons, MaxGeoms)
    /\ min_hole \in {5, DefaultMinHole}
    /\ clean_geoms = <<>>
    /\ invalid_count = 0
    /\ gmerged = NoGeom
    /\ gpc = "stage1"
    /\ stages = <<>>
    /\ IdleBfs
    /\ IdleBuild
    /\ IdlePick
    /\ IdleMain
    /\ IdleHoles
    /\ IdleIo

\* a mutant: stage 1 passes every geometry on as it is
Stage1_NoRepair ==
    /\ gpc = "stage1"
    /\ clean_geoms' = geometries
    /\ invalid_count' = 0
    /\ stages' = Append(stages, "repair")
    /\ gpc' = "stage2"
    /\ UNCHANGED <<geometries, min_hole, gmerged, bfsVars, buildVars, pickVars, mainVars, holeVars, ioVars>>

\* stage 1: the loop that repairs the invalid geometries
Stage1 ==
    /\ gpc = "stage1"
    /\ clean_geoms' = [k \in DOMAIN geometries |->
                          IF ~is_valid(geometries[k]) THEN buffer0(geometries[k])
                          ELSE geometries[k]]
    /\ invalid_count' = Cardinality({k \in DOMAIN geometries : ~is_valid(geometries[k])})
    /\ stages' = Append(stages, "repair")
    /\ gpc' = "stage2"
    /\ UNCHANGED <<geometries, min_hole, gmerged, bfsVars, buildVars, pickVars, mainVars, holeVars, ioVars>>

\* stage 2: merged = unary_union(clean_geoms); an exception leaves the
\* function
Stage2 ==
    /\ gpc = "stage2"
    /\ \E out \in unary_union(clean_geoms) :
          IF out.exc # ""
          THEN /\ gpc' = "raised"
               /\ UNCHANGED <<gmerged, stages>>
          ELSE /\ gmerged' = out.geom
               /\ stages' = Append(stages, "union")
               /\ gpc' = "stage3"
    /\ UNCHANGED <<geometries, min_hole, clean_geoms, invalid_count,
                   bfsVars, buildVars, pickVars, mainVars, holeVars, ioVars>>

\* stage 3: merged = merged.buffer(buffer_dist).buffer(-buffer_dist)
Stage3 ==
    /\ gpc = "stage3"
    /\ gmerged' = buffer_close(gmerged, DefaultBufferDist)
    /\ stages' = Append(stages, "gap closing")
    /\ gpc' = "stage4"
    /\ UNCHANGED <<geometries, min_hole, clean_geoms, invalid_count,
                   bfsVars, buildVars, pickVars, mainVars, holeVars, ioVars>>

\* stage 4: merged = remove_small_holes(merged, min_hole_km2), and return
Stage4 ==
    /\ gpc = "stage4"
    /\ gmerged' = remove_small_holes(gmerged, min_hole)
    /\ stages' = Append(stages, "hole filtering")
    /\ gpc' = "return"
    /\ UNCHANGED <<geometries, min_hole, clean_geoms, invalid_count,
                   bfsVars, buildVars, pickVars, mainVars, holeVars, ioVars>>

NextMerge ==
    \/ Stage1
    \/ Stage2
    \/ Stage3
    \/ Stage4

SpecMerge == InitMerge /\ [][NextMerge]_vars

(***************************************************************************)
(* SpecNorm: normalize_area_to_m2 applied to an area column.              *)
(***************************************************************************)
InitNorm ==
    /\ nSeries \in AreaColumns
    /\ nOut = <<>>
    /\ npc = "call"
    /\ IdleBfs
    /\ IdleBuild
    /\ IdlePick
    /\ IdleMain
    /\ IdleGeo
    /\ IdleRead

NormalizeArea ==
    /\ npc = "call"
    /\ nOut' = normalize_area_to_m2(nSeries)
    /\ npc' = "done"
    /\ UNCHANGED <<nSeries, bfsVars, buildVars, pickVars, mainVars, geoVars, readVars>>

NextNorm == NormalizeArea

SpecNorm == InitNorm /\ [][NextNorm]_vars

(***************************************************************************)
(* SpecRead: read_site_info applied to a workbook.                        *)
(***************************************************************************)
InitRead ==
    /\ rBook \in Workbooks
    /\ rOut = NoSheet
    /\ rpc = "call"
    /\ IdleBfs
    /\ IdleBuild
    /\ IdlePick
    /\ IdleMain
    /\ IdleGeo
    /\ IdleNorm

ReadSiteInfo ==
    /\ rpc = "call"
    /\ rOut' \in read_site_info(rBook)
    /\ rpc' = "done"
    /\ UNCHANGED <<rBook, bfsVars, buildVars, pickVars, mainVars, geoVars, normVars>>

NextRead == ReadSiteInfo

SpecRead == InitRead /\ [][NextRead]_vars

(***************************************************************************)
(* Claims about bfs_upstream.                                              *)
(***************************************************************************)
\* S is closed under the upstream edges of G
UpClosed(G, S) == \A n \in S : Get(G, n) \subseteq S

\* S is the set of ids reachable from r over zero or more upstream edges:
\* the least upstream-closed set that holds r
IsReachableSet(G, r, S) ==
    /\ r \in S
    /\ UpClosed(G, S)
    /\ \A T \in SUBSET Nodes : (r \in T /\ UpClosed(G, T)) => S \subseteq T

ChainG == GraphOf({<<1, 2>>, <<2, 3>>, <<3, 4>>}, {})
CycleG == GraphOf({<<1, 2>>, <<2, 1>>}, {})

\* C1: when bfs_upstream returns, its result is exactly the set of ids
\* reachable from the outlet over zero or more upstream edges (the outlet
\* included, nothing unreachable), whatever the order in which the sets are
\* iterated; it is {r} when r has no upstream edge or is no key of G, and
\* {1,2,3,4} for the chain G[1]={2}, G[2]={3}, G[3]={4} with outlet 1.
C1_BfsReachable ==
    bpc = "done" =>
        /\ IsReachableSet(bG, bOutlet, bResult)
        /\ bResult = bfs_upstream(bG, bOutlet)
        /\ (Get(bG, bOutlet) = {} => bResult = {bOutlet})
        /\ (bG = ChainG /\ bOutlet = 1 => bResult = {1, 2, 3, 4})

C1_Witness ==
    /\ bpc = "done"
    /\ bG = ChainG
    /\ bOutlet = 1
    /\ bResult = {1, 2, 3, 4}

\* C2: on every graph, cyclic ones included, the traversal terminates, and
\* no id is put on the queue or expanded more than once; on the cycle
\* G[1]={2}, G[2]={1} with outlet 1 it ends with {1,2}.
C2_BfsOnceAndTerminates ==
    /\ [](\A n \in Nodes : enq[n] <= 1 /\ expd[n] <= 1)
    /\ <>(bpc = "done")
    /\ [](bpc = "done" /\ bG = CycleG /\ bOutlet = 1 => bResult = {1, 2})

C2_Witness ==
    /\ bpc = "done"
    /\ bG = CycleG
    /\ bOutlet = 1
    /\ bResult = {1, 2}
    /\ enq[1] = 1 /\ expd[1] = 1
    /\ enq[2] = 1 /\ expd[2] = 1

(***************************************************************************)
(* Claims about build_upstream_graph and valid_int.                        *)
(***************************************************************************)
\* row r holds a valid value in column c
ValidCell(r, c) == valid_int(r[c]) = "True"

\* the edges <<d, u>> the downstream references name: some reach has the
\* identifier u and the valid downstream reference d
DownEdges(t) ==
    IF "NextDownID" \in t.cols
    THEN {<<IntOf(t.rows[i]["NextDownID"]), IntOf(t.rows[i]["COMID"])>> :
             i \in {j \in DOMAIN t.rows :
                      ValidCell(t.rows[j], "COMID") /\ ValidCell(t.rows[j], "NextDownID")}}
    ELSE {}

\* the edges <<d, u>> the upstream slots name: the reach with the
\* identifier d has the valid value u in one of its slots up1..up4
UpEdges(t) ==
    {<<IntOf(t.rows[p[1]]["COMID"]), IntOf(t.rows[p[1]][p[2]])>> :
        p \in {pp \in (DOMAIN t.rows) \X (t.cols \ {"NextDownID"}) :
                 ValidCell(t.rows[pp[1]], "COMID") /\ ValidCell(t.rows[pp[1]], pp[2])}}

\* the edges of a graph, as pairs <<key, member>>
EdgesOf(G) == UNION {{<<d, u>> : u \in G[d]} : d \in DOMAIN G}

\* C3: the graph build_upstream_graph returns has the edge d -> u exactly
\* when some reach u has the valid downstream reference d or the reach d
\* has the valid value u in one of its slots up1..up4: both field families
\* contribute, an edge named by both is one edge, and there is no other
\* edge (no key without an edge either).
C3_GraphEdges ==
    built.status = "ok" =>
        /\ EdgesOf(built.G) = DownEdges(tbl) \cup UpEdges(tbl)
        /\ \A d \in DOMAIN built.G : built.G[d] # {}

C3_Witness ==
    /\ built.status = "ok"
    /\ DownEdges(tbl) \cap UpEdges(tbl) # {}
    /\ UpEdges(tbl) \ DownEdges(tbl) # {}
    /\ EdgesOf(built.G) = DownEdges(tbl) \cup UpEdges(tbl)

\* C4: a topology field value that does not parse to a strictly positive
\* integer (None, NaN, infinite, zero, negative, text) is skipped without
\* an error: on a table that has a topology field build_upstream_graph
\* returns, and every key and member of its graph is strictly positive.
C4_InvalidValuesSkipped ==
    (built.status # "pending" /\ tbl.cols # {}) =>
        /\ built.status = "ok"
        /\ \A d \in DOMAIN built.G : d > 0 /\ \A u \in built.G[d] : u > 0

(***************************************************************************)
(* Claims about pick_nearest_reach.                                        *)
(***************************************************************************)
\* the attribute col of the reach at position i, an absent one counting 0
AttrOrZero(riv, i, col) ==
    IF col \in riv.cols /\ riv.rows[i][col].k = "int" THEN riv.rows[i][col].v ELSE 0

\* reach i does not rank after reach j for the station of pk: by distance,
\* then order, then upstream area with the flag off; by order, then
\* distance, then upstream area with the flag on
RanksNotAfter(i, j) ==
    LET di == DistSq(pk.riv.rows[i].geom, pk.x, pk.y)
        dj == DistSq(pk.riv.rows[j].geom, pk.x, pk.y)
        oi == AttrOrZero(pk.riv, i, "order")
        oj == AttrOrZero(pk.riv, j, "order")
        ai == AttrOrZero(pk.riv, i, "uparea")
        aj == AttrOrZero(pk.riv, j, "uparea")
    IN  IF pk.order_first
        THEN oi > oj \/ (oi = oj /\ (di < dj \/ (di = dj /\ ai >= aj)))
        ELSE di < dj \/ (di = dj /\ (oi > oj \/ (oi = oj /\ ai >= aj)))

\* the reach at position i is the one pick_nearest_reach returned
IsPicked(i) ==
    /\ pk.riv.rows[i].COMID = IntV(pickRes.COMID)
    /\ pickRes.dist2 = DistSq(pk.riv.rows[i].geom, pk.x, pk.y)
    /\ pickRes.order = AttrOrZero(pk.riv, i, "order")
    /\ pickRes.uparea = AttrOrZero(pk.riv, i, "uparea")

\* C6: on a non-empty candidate set pick_nearest_reach returns a candidate
\* that no other candidate precedes in the three-key ranking: (distance
\* ascending, order descending, upstream area descending) with the flag
\* off, (order descending, distance ascending, upstream area descending)
\* with it on; an absent order or upstream area counts as 0.
C6_PickRanking ==
    pickRes.status = "ok" =>
        LET I == Candidates(pk.riv, pk.x, pk.y, pk.snap_dist_m)
        IN  \E i \in I : IsPicked(i) /\ \A j \in I : RanksNotAfter(i, j)

\* with the flag on a farther reach of higher order was picked over a
\* nearer one of lower order
C6_Witness ==
    /\ pickRes.status = "ok"
    /\ pk.order_first
    /\ \E i, j \in Candidates(pk.riv, pk.x, pk.y, pk.snap_dist_m) :
          /\ IsPicked(i)
          /\ DistSq(pk.riv.rows[j].geom, pk.x, pk.y) < pickRes.dist2
          /\ AttrOrZero(pk.riv, j, "order") < pickRes.order
          /\ AttrOrZero(pk.riv, j, "uparea") > pickRes.uparea

\* C8: a reach pick_nearest_reach returns lies within the snap distance of
\* the station, for both settings of the order-preference flag.
C8_SnapWithinRadius ==
    pickRes.status = "ok" => pickRes.dist2 <= pk.snap_dist_m * pk.snap_dist_m

(***************************************************************************)
(* Claims about the batch of main().                                       *)
(***************************************************************************)
\* the reach table has no topology field at all
NoTopologyFields(t) == t.cols \cap TopoCols = {}

\* C5: when the reach table has neither NextDownID nor any of up1..up4,
\* build_upstream_graph fails with an error and main() ends there: no pool
\* is created, no worker is started, no station is submitted or processed,
\* no station result is produced and the ledger is not written.
C5_NoTopologyAborts ==
    NoTopologyFields(world.riv) =>
        /\ mpc \in {"start", "load", "exit", "aborted"}
        /\ Gmain.status \in {"pending", "RuntimeError"}
        /\ (mpc = "aborted" <=> Gmain.status = "RuntimeError")
        /\ wk = <<>>
        /\ fut = <<>>
        /\ stations = <<>>
        /\ summary_rows = <<>>
        /\ all_catchments = <<>>
        /\ ledger \in PriorLedgers

C5_Witness ==
    /\ NoTopologyFields(world.riv)
    /\ mpc = "aborted"
    /\ Gmain.status = "RuntimeError"
    /\ df_info # <<>>

\* the envelope of no reach of riv meets the square window of half-width
\* snap around (x, y)
NoReachInWindow(riv, x, y, snap) ==
    \A i \in DOMAIN riv.rows :
        LET e == Envelope(riv.rows[i].geom)
        IN  \/ e[1] > x + snap \/ e[3] < x - snap
            \/ e[2] > y + snap \/ e[4] < y - snap

\* the row of the station table with this code
InfoOf(code) == df_info[CHOOSE i \in DOMAIN df_info : df_info[i].code = code]

SnapFailed(r) == r.status = "fail" /\ r.msg = "no reach within snap_dist_m"

\* C7: the snap of a station fails exactly when no reach lies in the search
\* window around the station (no envelope of a reach meets the window); the
\* failure is the result of that one station, with status fail; the batch
\* is not aborted by it and every submitted station gets its one result.
C7_SnapFailureContained ==
    /\ \A k \in DOMAIN summary_rows :
          LET r == summary_rows[k]
              st == InfoOf(r.code)
          IN  SnapFailed(r) <=>
                NoReachInWindow(world.riv, st.lon, st.lat, CONFIG.snap_dist_m)
    /\ (Gmain.status = "ok" => mpc # "aborted")
    /\ (mpc \in {"chart", "done"} =>
          \A i \in DOMAIN stations :
             Cardinality({k \in DOMAIN summary_rows :
                            summary_rows[k].code = stations[i].code}) = 1)

C7_Witness ==
    /\ mpc = "done"
    /\ \E k, l \in DOMAIN summary_rows :
          /\ SnapFailed(summary_rows[k])
          /\ summary_rows[l].status = "ok"
          /\ l > k

\* C9: a result with a polygon has status ok exactly when the station has
\* no reference area or |computed area - reference| / reference is at most
\* the tolerance (equality included), and status reject otherwise; with a
\* relative error of 0.05 (area 21, reference 20) the status is ok under
\* tolerance 0.20 and reject under tolerance 0.02.
C9_ToleranceDecides ==
    \A k \in DOMAIN summary_rows :
        LET r == summary_rows[k]
            ref == InfoOf(r.code).area_m2
            err == IF r.area >= ref.v THEN r.area - ref.v ELSE ref.v - r.area
        IN  r.status \in {"ok", "reject"} =>
              /\ (ref.k = "int" /\ ref.v > 0) =>
                    (r.status = "ok" <=> 100 * err <= CONFIG.area_tol * ref.v)
              /\ ref.k = "nan" => r.status = "ok"
              /\ (ref = IntV(20) /\ r.area = 21 /\ CONFIG.area_tol = 20) => r.status = "ok"
              /\ (ref = IntV(20) /\ r.area = 21 /\ CONFIG.area_tol = 2) => r.status = "reject"

C9_Witness ==
    /\ CONFIG.area_tol = 2
    /\ \E k \in DOMAIN summary_rows :
          /\ summary_rows[k].status = "reject"
          /\ summary_rows[k].area = 21
          /\ InfoOf(summary_rows[k].code).area_m2 = IntV(20)

\* the ids reachable from the ids of S over the upstream edges of G
RECURSIVE UpClosure(_, _)
UpClosure(G, S) ==
    LET T == S \cup UNION {G[n] : n \in S \cap DOMAIN G}
    IN  IF T = S THEN S ELSE UpClosure(G, T)

\* C10: no station ends with status ok or reject when the set of reaches
\* upstream of its snapped reach has more members than max_up_reach: the
\* result of such a station has status fail.
C10_CapEnforced ==
    \A k \in DOMAIN summary_rows :
        LET r == summary_rows[k]
        IN  /\ r.status \in {"ok", "reject", "fail"}
            /\ r.status \in {"ok", "reject"} =>
                 Cardinality(UpClosure(Gmain.G, {r.COMID})) <= CONFIG.max_up_reach

C10_Witness ==
    /\ CONFIG.max_up_reach = 2
    /\ \E k, l \in DOMAIN summary_rows :
          /\ summary_rows[k].status = "fail"
          /\ summary_rows[k].msg = "upstream reaches exceed max_up_reach"
          /\ summary_rows[l].status = "ok"
          /\ summary_rows[l].n_up = 2


\* the rows of summary_rows that carry the code of station i
RowsOf(i) == {k \in DOMAIN summary_rows : summary_rows[k].code = stations[i].code}

\* C11: an exception raised while a station is processed, by the
\* orchestrator (caught by the wrapper), by the wrapper itself (worker
\* resources not initialized) or by a dying worker process (the future
\* raises), ends as exactly one row of that station with status fail and a
\* message; the loop goes on, main() is not ended by it and every station
\* has its row when the loop is over.
C11_ExceptionsBecomeFail ==
    /\ \A i \in DOMAIN fut :
          fut[i].state = "collected" =>
            /\ Cardinality(RowsOf(i)) = 1
            /\ (fut[i].out.exc # "" \/ fut[i].out.res.msg = "unexpected") =>
                  \A k \in RowsOf(i) :
                     /\ summary_rows[k].status = "fail"
                     /\ summary_rows[k].msg # ""
                     /\ ~summary_rows[k].gdf.has
    /\ \A i \in DOMAIN stations :
          \A out \in process_station_worker(stations[i], NoData, CONFIG) :
             /\ out.exc = "RuntimeError"
             /\ FutureResult(stations[i], out).status = "fail"
             /\ FutureResult(stations[i], out).msg # ""
    /\ (Gmain.status = "ok" => mpc # "aborted")
    /\ (mpc \in {"chart", "done"} => \A i \in DOMAIN stations : Cardinality(RowsOf(i)) = 1)

\* the same without the end of main(): every collected future has its one
\* row, a fail row with a message when the task raised or its worker died,
\* and main() is ended after the graph is built only by a submit on a
\* broken pool, with a station that was never submitted
C11_FailRowsOnceSubmitted ==
    /\ \A i \in DOMAIN fut :
          fut[i].state = "collected" =>
            /\ Cardinality(RowsOf(i)) = 1
            /\ (fut[i].out.exc # "" \/ fut[i].out.res.msg = "unexpected") =>
                  \A k \in RowsOf(i) :
                     /\ summary_rows[k].status = "fail"
                     /\ summary_rows[k].msg # ""
                     /\ ~summary_rows[k].gdf.has
    /\ (Gmain.status = "ok" /\ mpc = "aborted") => (PoolBroken /\ Len(fut) < Len(stations))
    /\ (mpc \in {"chart", "done"} => \A i \in DOMAIN stations : Cardinality(RowsOf(i)) = 1)

C11_Witness ==
    /\ mpc = "done"
    /\ \E k, l \in DOMAIN summary_rows :
          /\ summary_rows[k].msg = "unexpected"
          /\ summary_rows[l].msg = "BrokenProcessPool"
          /\ summary_rows[l].status = "fail"


\* a well-formed station result
WellFormedResult(r) ==
    /\ r.status \in {"ok", "reject", "fail"}
    /\ r.status \in {"ok", "reject"} => (r.gdf.has /\ r.gdf.cells # {})
    /\ r.status = "fail" => (r.msg # "" /\ ~r.gdf.has)

\* C12: every station result, as the future delivers it and as the loop
\* records it, has a status among ok, reject and fail; with ok or reject
\* it carries the merged polygon, with fail a message and no polygon.
C12_ResultShape ==
    /\ \A k \in DOMAIN summary_rows : WellFormedResult(summary_rows[k])
    /\ \A i \in DOMAIN fut :
          fut[i].state \in {"done", "collected"} =>
             WellFormedResult(FutureResult(stations[i], fut[i].out))

C12_Witness ==
    \E k, l \in DOMAIN summary_rows :
       /\ summary_rows[k].status = "reject"
       /\ summary_rows[k].gdf.has
       /\ summary_rows[l].status = "fail"
       /\ summary_rows[l].msg = "unexpected"


\* the ledger holds a row of this code with status ok
PriorOk(led, code) ==
    led.exists /\ \E j \in DOMAIN led.rows :
                     led.rows[j].code = code /\ led.rows[j].status = "ok"

\* the station table t has a row of this code
HasCode(t, code) == \E j \in DOMAIN t : t[j].code = code

\* C13: the resume check removes from the pending list exactly the
\* stations whose row in the ledger file has status ok; a station whose
\* prior status is reject or fail, or which has no row, stays pending. This
\* holds for every code a station carries.
C13_ResumeSkipsOk ==
    [][(mpc = "start" /\ mpc' # "start") =>
          \A i \in DOMAIN df_info :
             HasCode(df_info', df_info[i].code) <=> ~PriorOk(ledger, df_info[i].code)]_vars

\* C14: the ledger holds one row per station and results are appended to
\* it: when a resumed run writes the ledger, the rows of the stations it
\* skipped because their prior status was ok are still in the file, together
\* with exactly one row for each station processed in this run.
C14_LedgerKeepsSkipped ==
    [][(mpc = "collect" /\ mpc' = "chart") =>
          /\ \A i \in DOMAIN excel :
                (PriorOk(ledger, excel[i].code) /\ ~HasCode(df_info, excel[i].code)) =>
                   \E j \in DOMAIN ledger'.rows : ledger'.rows[j].code = excel[i].code
          /\ \A i \in DOMAIN df_info :
                Cardinality({j \in DOMAIN ledger'.rows :
                               ledger'.rows[j].code = df_info[i].code}) = 1]_vars


\* the run is over, the ledger is written with one row per pending station
\* and the counts add up
Completed_Run ==
    /\ mpc = "done"
    /\ ledger = ToCsv(summary_rows)
    /\ Len(summary_rows) = Len(df_info)
    /\ cnt.ok + cnt.reject + cnt.fail = Len(df_info)

\* C15: a run of main() with a pending station and a reach table that has
\* topology fields is never ended by an exception and reaches its end
\* whatever the stations' outcomes are, worker deaths and the case where
\* every station fails included: the ledger is written with one row per
\* station and the ok/reject/fail counts add up to the number of stations.
C15_BatchCompletes ==
    /\ [](mpc = "aborted" => NoTopologyFields(world.riv))
    /\ ((mpc = "load" /\ ~NoTopologyFields(world.riv)) ~> Completed_Run)

\* the same from the moment every station is submitted
C15_CompletesOnceSubmitted == (mpc = "collect") ~> Completed_Run


\* the rows station i can give when its task runs alone on a freshly
\* initialised worker
SoloResults(i) ==
    {FutureResult(StationDict(df_info[i]), out) :
        out \in process_station_worker(StationDict(df_info[i]),
                                       worker_init(world.riv, world.cat, Gmain.G), CONFIG)}

\* C16: when the collection loop is over, the coordinator holds exactly one
\* row per pending station and the set of rows is the set of the stations'
\* results computed one by one, whatever the order in which the tasks
\* completed or were collected and whichever worker ran which task.
C16_OrderIndependent ==
    mpc \in {"chart", "done"} =>
        /\ Len(summary_rows) = Len(df_info)
        /\ \A i \in DOMAIN df_info : Cardinality(SoloResults(i)) = 1
        /\ {summary_rows[k] : k \in DOMAIN summary_rows} =
               UNION {SoloResults(i) : i \in DOMAIN df_info}

\* a finished run whose rows are not in the order of submission
C16_Witness ==
    /\ mpc = "done"
    /\ Len(summary_rows) = 2
    /\ summary_rows[1].code = df_info[2].code
    /\ summary_rows[1].status # summary_rows[2].status

\* C17: the result of a station is the result of its computation alone on
\* a freshly initialised worker, whatever happens to the other stations of
\* the batch, unless its own task, once started in a worker, ended in a
\* failure.
C17_FailureIsolated ==
    \A i \in DOMAIN fut :
        fut[i].state \in {"done", "collected"} =>
            LET res == FutureResult(stations[i], fut[i].out)
            IN  \/ res \in SoloResults(i)
                \/ fut[i].worker # 0 /\ res.status = "fail"

\* the rows of this run with one of the given statuses
RowsWith(statuses) == {k \in DOMAIN summary_rows : summary_rows[k].status \in statuses}

\* C18: when the collection loop is over, the list written as the combined
\* geometry output holds the polygon of every row with status ok or reject
\* and nothing else: as many entries as there are such rows, so none for a
\* failed station.
C18_CombinedGeometry ==
    mpc \in {"chart", "done"} =>
        /\ \A k \in RowsWith({"ok", "reject"}) :
              \E j \in DOMAIN all_catchments : all_catchments[j] = summary_rows[k].gdf
        /\ Len(all_catchments) = Cardinality(RowsWith({"ok", "reject"}))

\* the same for the rows with status ok alone
C18_OkGeometryOnly ==
    mpc \in {"chart", "done"} =>
        /\ \A k \in RowsWith({"ok"}) :
              \E j \in DOMAIN all_catchments : all_catchments[j] = summary_rows[k].gdf
        /\ Len(all_catchments) = Cardinality(RowsWith({"ok"}))

(***************************************************************************)
(* Claims about remove_small_holes and merge_catchments_fixed_robust.      *)
(***************************************************************************)
\* the approximate area of ring r, its area in square degrees times 10,000
\* km^2, is at or above the threshold t (in tenths of a km^2)
AtOrAbove(r, t) == RingArea(r) * Km2PerDeg2 * 10 >= t * 1000000

\* the polygons a geometry consists of
PartsOf(g) == IF g.kind = "MultiPolygon" THEN g.geoms ELSE <<g>>

\* polygon o is polygon p without its interior rings below the threshold t
HolesFiltered(p, o, t) ==
    /\ o.kind = "Polygon"
    /\ o.exterior = p.exterior
    /\ \A j \in DOMAIN p.interiors :
          AtOrAbove(p.interiors[j], t) <=>
              \E k \in DOMAIN o.interiors : o.interiors[k] = p.interiors[j]
    /\ \A k \in DOMAIN o.interiors :
          \E j \in DOMAIN p.interiors : o.interiors[k] = p.interiors[j]
    /\ Len(o.interiors) =
          Cardinality({j \in DOMAIN p.interiors : AtOrAbove(p.interiors[j], t)})

\* C19: the geometry remove_small_holes returns for a polygon or a
\* multi-polygon has the same components, each with its exterior ring
\* unchanged, with every interior ring whose approximate area is at or
\* above the threshold, unchanged, and with no ring below the threshold;
\* for rings of about 0.5 km^2 and 6 km^2 and the threshold 1.0 km^2 the
\* result has exactly the ring of 6 km^2.
C19_SmallHolesRemoved ==
    (hpc = "done" /\ hGeom.kind \in {"Polygon", "MultiPolygon"}) =>
        /\ hOut.kind = hGeom.kind
        /\ Len(PartsOf(hOut)) = Len(PartsOf(hGeom))
        /\ \A k \in DOMAIN PartsOf(hGeom) :
              HolesFiltered(PartsOf(hGeom)[k], PartsOf(hOut)[k], hMin)
        /\ (hGeom = ExamplePolygon /\ hMin = 10) =>
              /\ hOut.interiors = <<Ring({4}, FALSE)>>
              /\ RingArea(hOut.interiors[1]) = 600

\* the example: of the rings of 50 and 600 millionths of a square degree
\* the second is left
C19_Witness ==
    /\ hpc = "done"
    /\ hGeom = ExamplePolygon
    /\ hMin = 10
    /\ Len(hGeom.interiors) = 2
    /\ Len(hOut.interiors) = 1

\* the four stages in the order of the code
StageOrder == <<"repair", "union", "gap closing", "hole filtering">>

\* C20: merge_catchments_fixed_robust never ends in an exception; once
\* stage 1 is over clean_geoms holds, for every input, the input itself
\* when it is valid and its buffer(0) when it is not, and all of them are
\* valid, so that the union is computed on repaired geometries only; the
\* stages run in the order repair, union, gap closing, hole filtering and
\* a call that has returned has run all four.
C20_RepairThenMerge ==
    /\ gpc # "raised"
    /\ gpc \notin {"idle", "stage1"} =>
          /\ Len(clean_geoms) = Len(geometries)
          /\ \A k \in DOMAIN geometries :
                /\ is_valid(clean_geoms[k])
                /\ clean_geoms[k] = IF is_valid(geometries[k]) THEN geometries[k]
                                    ELSE buffer0(geometries[k])
    /\ stages = SubSeq(StageOrder, 1, Len(stages))
    /\ gpc = "return" => stages = StageOrder

\* a call with a valid and an invalid polygon has returned
C20_Witness ==
    /\ gpc = "return"
    /\ Len(geometries) = 2
    /\ invalid_count = 1
    /\ stages = StageOrder
    /\ is_valid(gmerged)

(***************************************************************************)
(* Claims about read_site_info and normalize_area_to_m2.                   *)
(***************************************************************************)
\* the k-th smallest value of the series s (k in 1..Len(s)), by counting
KthSmallest(s, k) ==
    LET vals == {s[i] : i \in DOMAIN s}
        below(v) == Cardinality({i \in DOMAIN s : NumLt(s[i], v)})
        upto(v) == Cardinality({i \in DOMAIN s : ~NumLt(v, s[i])})
    IN  CHOOSE v \in vals : below(v) < k /\ k <= upto(v)

\* the median of the non-empty series s is below t: the middle value is, or
\* the sum of the two middle values is below 2t
MedianBelow(s, t) ==
    LET n == Len(s)
    IN  IF n % 2 = 1 THEN NumLt(KthSmallest(s, (n + 1) \div 2), t)
        ELSE NumLt(NumAdd(KthSmallest(s, n \div 2), KthSmallest(s, n \div 2 + 1)),
                   NumAdd(t, t))

\* C21: the column normalize_area_to_m2 returns has a missing value where
\* the argument has one; when the median of the other values is below
\* 1,000,000 every one of them is the argument's value times 1,000,000,
\* when it is at or above 1,000,000, or the column has no value, the column
\* is the argument; [1500, 2000, 2500] gives [1.5e9, 2.0e9, 2.5e9] and
\* [1.5e9, 2.0e9] is returned as it is.
C21_MedianDecides ==
    npc = "done" =>
        LET s == dropna(nSeries)
        IN  /\ DOMAIN nOut = DOMAIN nSeries
            /\ \A i \in DOMAIN nSeries : nOut[i].nan <=> nSeries[i].nan
            /\ s = <<>> => nOut = nSeries
            /\ (s # <<>> /\ MedianBelow(s, Num(1, 6))) =>
                  \A i \in DOMAIN nSeries :
                      ~nSeries[i].nan => nOut[i] = Num(nSeries[i].m, nSeries[i].e + 6)
            /\ (s # <<>> /\ ~MedianBelow(s, Num(1, 6))) => nOut = nSeries
            /\ nSeries = <<Num(15, 2), Num(2, 3), Num(25, 2)>> =>
                  nOut = <<Num(15, 8), Num(2, 9), Num(25, 8)>>
            /\ nSeries = <<Num(15, 8), Num(2, 9)>> => nOut = nSeries

\* a column in km^2 with a missing value has been converted
C21_Witness ==
    /\ npc = "done"
    /\ nSeries = <<Num(15, 2), NoArea, Num(25, 2)>>
    /\ nOut = <<Num(15, 8), NoArea, Num(25, 8)>>

\* C28: the column normalize_area_to_m2 returns is a fixed point of the
\* function: applied to it, the function returns it unchanged.
C28_Idempotent ==
    npc = "done" => normalize_area_to_m2(nOut) = nOut

\* the same for the columns whose median is at least 1
C28_IdempotentFromOne ==
    (npc = "done" /\ dropna(nSeries) # <<>> /\ ~MedianBelow(dropna(nSeries), Num(1, 0))) =>
        normalize_area_to_m2(nOut) = nOut

\* a cell of the sheet holds a usable value: a code, or a number for a
\* coordinate
HasCodeCell(row) == row.code.kind # "nan"
HasCoord(x) == x.k \in {"int", "str"}

\* C22: the rows read_site_info returns are exactly the rows of the sheet
\* that have a code, a longitude and a latitude, each once and in the
\* order of the sheet; no returned row has a missing code, longitude or
\* latitude.
C22_IncompleteRowsDropped ==
    (rpc = "done" /\ rOut.exc = "") =>
        LET raw == rBook[rOut.sheet].rows
            whole == {i \in DOMAIN raw :
                        HasCodeCell(raw[i]) /\ HasCoord(raw[i].lon) /\ HasCoord(raw[i].lat)}
        IN  /\ {rOut.rows[k].idx : k \in DOMAIN rOut.rows} = whole
            /\ Len(rOut.rows) = Cardinality(whole)
            /\ \A k \in DOMAIN rOut.rows :
                  /\ rOut.rows[k].code.kind = "text"
                  /\ rOut.rows[k].code # TextNan
                  /\ rOut.rows[k].lon # NaN
                  /\ rOut.rows[k].lat # NaN

\* the same for the rows whose code is present
C22_CoordinatesDropped ==
    (rpc = "done" /\ rOut.exc = "") =>
        LET raw == rBook[rOut.sheet].rows
        IN  \A i \in {j \in DOMAIN raw : HasCodeCell(raw[j])} :
                (HasCoord(raw[i].lon) /\ HasCoord(raw[i].lat)) <=>
                    \E k \in DOMAIN rOut.rows : rOut.rows[k].idx = i

(***************************************************************************)
(* Claims about the worker pool and the ledger of main().                  *)
(***************************************************************************)
\* the pool of this run has been created
PoolCreated == mpc \in {"submit", "collect", "chart", "done", "aborted"} /\ Gmain.status = "ok"

\* C23: on a machine of any number of cores the pool has at least 1 and at
\* most 4 workers: one worker on a machine of one or two cores, cores - 1
\* workers on a machine of up to five cores, and four workers beyond that.
C23_PoolSize ==
    PoolCreated =>
        /\ Len(wk) >= 1
        /\ Len(wk) <= 4
        /\ cpus = 1 => Len(wk) = 1
        /\ (cpus - 1 >= 1 /\ cpus - 1 <= 4) => Len(wk) = cpus - 1
        /\ cpus - 1 > 4 => Len(wk) = 4

\* on a machine of six cores or more the pool of four workers runs
C23_Witness ==
    /\ mpc = "collect"
    /\ cpus >= 6
    /\ Len(wk) = 4
    /\ \E w \in DOMAIN wk : wk[w].state = "busy"

\* every station task of the pool is over and its result has been taken
ParallelPhaseOver ==
    /\ \A i \in DOMAIN fut : fut[i].state = "collected"
    /\ \A w \in DOMAIN wk : wk[w].state # "busy"

\* C24: in a run that starts without a ledger, a step writes the ledger
\* file only when no station task is pending or running and every result
\* has been collected, and only when the file has not been written yet; so
\* a ledger file exists only in states where the parallel phase is over.
C24_LedgerAfterPool ==
    /\ [](ledger.exists => ParallelPhaseOver)
    /\ [][ledger' # ledger => (ParallelPhaseOver /\ ~ledger.exists /\ ledger'.exists)]_vars
    /\ [][(mpc \in {"chart", "done", "aborted", "exit"}) => (ledger' = ledger)]_vars

\* the ledger of a run of two stations has been written
C24_Witness ==
    /\ mpc = "chart"
    /\ ledger.exists
    /\ Len(ledger.rows) >= 2
    /\ Len(fut) >= 2

\* what the initializer of a worker of this run stores
InitData == worker_init(world.riv, world.cat, Gmain.G)

\* C25: a worker that has not started has run no initializer and holds no
\* data; a worker that waits for a task, runs one or has exited has run the
\* initializer exactly once and holds the datasets and the graph the
\* initializer stored; no step of a started worker runs the initializer
\* again or changes its data, and the result of a task that returns is a
\* result of the orchestrator on the data of the worker that ran it.
C25_InitOncePerWorker ==
    /\ [](\A w \in DOMAIN wk :
            /\ wk[w].inits <= 1
            /\ wk[w].state \in {"idle", "busy"} => (wk[w].inits = 1 /\ wk[w].data = InitData)
            /\ wk[w].inits = 0 => (wk[w].data = NoData /\ wk[w].state \in {"off", "exited"}))
    /\ [][\A w \in DOMAIN wk :
             (w \in DOMAIN wk' /\ wk[w].inits = 1) =>
                 (wk'[w].inits = 1 /\ wk'[w].data = wk[w].data)]_vars
    /\ [][\A i \in DOMAIN fut :
             (i \in DOMAIN fut' /\ fut[i].state = "running" /\ fut'[i].state = "done"
                /\ fut'[i].out.exc = "" /\ fut'[i].out.res.msg # "unexpected") =>
                 fut'[i].out \in process_station_worker(stations[i], wk[fut[i].worker].data, CONFIG)]_vars

\* a worker runs its second task on the data of its one initialization
C25_Witness ==
    /\ mpc = "collect"
    /\ \E w \in DOMAIN wk :
          /\ wk[w].state = "busy"
          /\ wk[w].task = 2
          /\ fut[1].worker = w
          /\ fut[1].state \in {"done", "collected"}
          /\ wk[w].inits = 1
          /\ wk[w].data = InitData

\* the tasks, the futures and the rows of a run in which every station is
\* submitted: one of each per pending station
C26_OneRowWhenSubmitted ==
    /\ mpc \in {"collect", "chart", "done"} =>
          /\ Len(stations) = Len(df_info)
          /\ Len(fut) = Len(df_info)
          /\ \A i \in DOMAIN df_info : stations[i].code = df_info[i].code
          /\ Len(summary_rows) = Cardinality({i \in DOMAIN fut : fut[i].state = "collected"})
    /\ mpc \in {"chart", "done"} =>
          /\ Len(summary_rows) = Len(df_info)
          /\ \E p \in Permutations(DOMAIN df_info) :
                \A k \in DOMAIN summary_rows : summary_rows[k].code = df_info[p[k]].code

\* C26: every pending station is submitted: once main() has left the
\* submission there is one task and one future for every pending station,
\* in the order of the list and with its code; there are as many collected
\* rows as futures collected, and when the loop is over the rows match the
\* pending stations one to one by their code: as many rows as stations,
\* none missing and none twice, in whatever order the tasks completed.
C26_OneRowPerStation ==
    /\ (stations # <<>> /\ mpc # "submit") => Len(fut) = Len(stations)
    /\ C26_OneRowWhenSubmitted

\* the loop is over and the two rows are in the reverse order of the list
C26_Witness ==
    /\ mpc = "chart"
    /\ Len(df_info) = 2
    /\ Len(summary_rows) = 2
    /\ df_info[1].code # df_info[2].code
    /\ summary_rows[1].code = df_info[2].code
    /\ summary_rows[2].code = df_info[1].code

(***************************************************************************)
(* Claims about the effect of bfs_upstream on the graph.                   *)
(***************************************************************************)
\* C27: no step of bfs_upstream changes the graph it is given: the keys
\* and the upstream set of every key are the same after the step as before
\* it, whether the reach looked up is a key of the graph or not.
C27_GraphUnchanged ==
    [][/\ DOMAIN bG' = DOMAIN bG
       /\ \A k \in DOMAIN bG : bG'[k] = bG[k]]_vars

\* a call has returned after looking up a headwater that is no key of the
\* graph, and the headwater is still no key
C27_Witness ==
    /\ bpc = "done"
    /\ \E n \in bResult :
          /\ n # bOutlet
          /\ expd[n] = 1
          /\ n \notin DOMAIN bG

(***************************************************************************)
(* Claims about the resume check of main().                                *)
(***************************************************************************)
\* C29: while the ledger file is one the resume check cannot read, the run
\* is neither aborted nor ended early; after the check every station of
\* the station list is pending, each gets a task, and the step that ends
\* the parallel phase and rewrites the ledger is taken with one collected
\* row for every station of the list.
C29_BadLedgerIgnored ==
    /\ [](ResumeRaises(ledger) =>
            /\ mpc \in {"start", "load", "pool", "submit", "collect"}
            /\ mpc # "start" => df_info = excel
            /\ mpc = "collect" => Len(fut) = Len(excel))
    /\ [][(ResumeRaises(ledger) /\ mpc = "collect" /\ mpc' # "collect") =>
            /\ mpc' = "chart"
            /\ Len(summary_rows) = Len(excel)
            /\ \A i \in DOMAIN excel :
                  \E k \in DOMAIN summary_rows : summary_rows[k].code = excel[i].code]_vars

\* the ledger has no status column and both stations of the list have been
\* processed
C29_Witness ==
    /\ ledger.exists
    /\ ledger.form = "no_status"
    /\ mpc = "collect"
    /\ Len(excel) = 2
    /\ Len(summary_rows) = 2

\* every station of the station list has a row with status ok in the ledger
AllPriorOk ==
    /\ ledger.exists
    /\ excel # <<>>
    /\ \A i \in DOMAIN excel : PriorOk(ledger, excel[i].code)

\* the run ends at the resume check: nothing is loaded, started, processed
\* or written by the step, and nothing happens after it
EndsAtResumeCheck ==
    /\ mpc' = "exit"
    /\ ledger' = ledger
    /\ Gmain' = NotBuilt
    /\ wk' = <<>>
    /\ fut' = <<>>
    /\ summary_rows' = <<>>

\* C30: when every station of the station list has status ok in the
\* ledger, the resume check ends the run: the graph is not built, no worker
\* and no task is started, no row is collected, the ledger file stays as it
\* is, and the run takes no step after the check.
C30_AllOkExitsEarly ==
    /\ [][(mpc = "start" /\ AllPriorOk) => EndsAtResumeCheck]_vars
    /\ [][mpc # "exit"]_vars

\* the same for station lists whose codes have no leading zero
C30_ExitsWhenRecognised ==
    /\ [][(mpc = "start" /\ AllPriorOk /\ \A i \in DOMAIN excel : excel[i].code.zeros = 0) =>
             EndsAtResumeCheck]_vars
    /\ [][mpc = "exit" => FALSE]_vars
=============================================================================
